---- MODULE Spec2Model ----
(***************************************************************************)
(* Verification model of notion-daily-log: the weekly archive run          *)
(* (archive_last_week.py) with its recursive tree copy, and the            *)
(* RateLimiter it paces its remote calls with.                             *)
(*                                                                         *)
(* Spec    : one run of NotionArchiver.archive_last_week against a remote  *)
(*           page/block store, one step per remote call or throttle call.  *)
(* SpecRL  : concurrent workers calling the four RateLimiter methods.      *)
(***************************************************************************)
EXTENDS Integers, Sequences, FiniteSets, TLC

\* ------------------------------------------------------------------------
\* Bounds of the model
\* ------------------------------------------------------------------------
\* most candidate pages the database query returns in a batch run
NumCandidates == 2
\* largest max_workers given to archive_last_week
MaxWorkers == 2
\* longest block list of the single source page of a tree run
MaxBlocks == 2
\* nesting depth of child pages below a source page
TreeDepth == 2
\* blocks per page of the paginated block listing
PageSize == 1
\* remote calls that are answered with a failure in one run
MaxFailures == 1

\* threads that call the RateLimiter at the same time
NumThreads == 2
\* RateLimiter methods called in one run of the RateLimiter model
MaxCalls == 2
\* the clock of the RateLimiter model stops after this many ticks
MaxTicks == 4

\* create_daily_log: the days a run can start on, counted from Monday
\* 2025-10-27
NumDays == 7

\* remote calls one run of main is followed for
MaxRemoteCalls == 2

\* ------------------------------------------------------------------------
\* The source forest held by the remote store (read-only for the run)
\* ------------------------------------------------------------------------
\* A source node is named by its path: <<c>> is candidate page c, and
\* Append(p, i) is the i-th child block of node p.  A world fixes the block
\* kinds of every candidate's top-level list; what lies below a child_page or
\* a block with children is fixed by NestedPageKinds and ToggleKinds.

\* kinds a candidate's top-level list is drawn from
BlockKinds == {"paragraph", "toggle", "child_page", "unsupported"}

\* content of a child page at the given depth below its candidate
NestedPageKinds(depth) ==
    IF depth < TreeDepth THEN <<"child_page", "paragraph">> ELSE <<"child_database">>

ToggleKinds == <<"paragraph">>

Parent(p) == SubSeq(p, 1, Len(p) - 1)

RECURSIVE KindsUnder(_, _)
RECURSIVE KindOf(_, _)
KindOf(w, p) == KindsUnder(w, Parent(p))[p[Len(p)]]

KindsUnder(w, p) ==
    IF Len(p) = 1 THEN w.top[p[1]]
    ELSE LET k == KindOf(w, p) IN
         CASE k = "child_page" -> NestedPageKinds(Len(p) - 1)
           [] k = "toggle" -> ToggleKinds
           [] OTHER -> << >>

\* the dict found under block[block_type] of a block read from the store
Payload(kind) ==
    CASE kind = "paragraph" -> [k \in {"rich_text", "color"} |->
                                   IF k = "rich_text" THEN "text" ELSE "default"]
      [] kind = "toggle" -> [k \in {"rich_text"} |-> "text"]
      [] kind = "child_page" -> [k \in {"title"} |-> "title"]
      [] kind = "child_database" -> [k \in {"title"} |-> "title"]
      [] OTHER -> [k \in {} |-> ""]

\* a block as the block listing returns it
Block(w, p) ==
    LET kind == KindOf(w, p) IN
    [k \in {"id", "type", "has_children", kind} |->
       CASE k = "id" -> p
         [] k = "type" -> kind
         [] k = "has_children" -> Len(KindsUnder(w, p)) > 0
         [] OTHER -> Payload(kind)]

\* ids of the children of node p, in display order
Listing(w, p) == [i \in 1..Len(KindsUnder(w, p)) |-> Append(p, i)]

Min(a, b) == IF a < b THEN a ELSE b

\* GET blocks/{p}/children?start_cursor=cursor: one page of the listing.
\* A cursor is the offset of the next block; 0 stands for None.
ListPage(w, p, cursor) ==
    LET all == Listing(w, p)
        to == Min(cursor + PageSize, Len(all))
    IN [results |-> SubSeq(all, cursor + 1, to),
        has_more |-> to < Len(all),
        next_cursor |-> IF to < Len(all) THEN to ELSE 0]

\* date attribute of candidate page c (a day number)
DateOf(c) == c

\* ------------------------------------------------------------------------
\* Pure helpers of NotionArchiver
\* ------------------------------------------------------------------------
EmptyDict == [k \in {} |-> ""]

\* Python's None as a result of clean_block_for_copy
None == [None |-> TRUE]

ReadonlyFields ==
    {"id", "created_time", "last_edited_time", "created_by", "last_edited_by",
     "has_children", "archived", "parent"}

EmptyBlockTypes == {"divider", "breadcrumb", "table_of_contents"}

UnsupportedBlocks == {"link_preview", "unsupported"}

\* a cleaned block that carries the whole payload, read-only keys included
clean_block_keep_all(block) ==
    LET block_type == IF "type" \in DOMAIN block THEN block["type"] ELSE "" IN
    IF block_type = "" THEN None
    ELSE [k \in {"type", block_type} |->
            IF k = "type" THEN block_type
            ELSE IF block_type \in DOMAIN block THEN block[block_type] ELSE EmptyDict]

\* a cleaning that passes every block with a kind
clean_block_any_kind(block) ==
    LET block_type == IF "type" \in DOMAIN block THEN block["type"] ELSE "" IN
    IF block_type = "" THEN None
    ELSE [k \in {"type", block_type} |-> IF k = "type" THEN block_type ELSE EmptyDict]

\* a cleaning that takes the payload of the empty kinds as that of any other
clean_block_payload_always(block) ==
    LET block_type == IF "type" \in DOMAIN block THEN block["type"] ELSE "" IN
    IF block_type = "" THEN None
    ELSE IF block_type \in {"child_page", "child_database"} THEN None
    ELSE IF block_type \in UnsupportedBlocks THEN None
    ELSE LET original_content ==
                 IF block_type \in DOMAIN block THEN block[block_type] ELSE EmptyDict
         IN [k \in {"type", block_type} |->
               IF k = "type" THEN block_type
               ELSE [key \in DOMAIN original_content \ ReadonlyFields |->
                        original_content[key]]]

\* A block is a dict: a function from its keys. block.get('type') of a block
\* without the key, or with an empty one, is falsy.
clean_block_for_copy(block) ==
    LET block_type == IF "type" \in DOMAIN block THEN block["type"] ELSE "" IN
    IF block_type = "" THEN None
    ELSE IF block_type \in {"child_page", "child_database"} THEN None
    ELSE IF block_type \in UnsupportedBlocks THEN None
    ELSE LET original_content ==
                 IF block_type \in DOMAIN block THEN block[block_type] ELSE EmptyDict
             rich == IF "rich_text" \in DOMAIN original_content
                     THEN {"rich_text"} ELSE {}
             rest == {key \in DOMAIN original_content :
                         key \notin ReadonlyFields /\ key \notin rich}
             cleaned == IF block_type \in EmptyBlockTypes THEN EmptyDict
                        ELSE [key \in rich \cup rest |-> original_content[key]]
         IN [k \in {"type", block_type} |->
               IF k = "type" THEN block_type ELSE cleaned]

\* sorted(pages, key=date, reverse=True): stable, newest first
RECURSIVE InsertDesc(_, _)
InsertDesc(s, x) ==
    IF s = << >> THEN <<x>>
    ELSE IF DateOf(Head(s)) >= DateOf(x) THEN <<Head(s)>> \o InsertDesc(Tail(s), x)
    ELSE <<x>> \o s

RECURSIVE SortedByDateDesc(_)
SortedByDateDesc(pages) ==
    IF pages = << >> THEN << >>
    ELSE InsertDesc(SortedByDateDesc(SubSeq(pages, 1, Len(pages) - 1)), pages[Len(pages)])

\* the caller identity a submitted task is given: f"worker-{i % max_workers}"
\* with i the 0-based position in pages_sorted; 'default' in sequential mode
DefaultId == <<"default">>

WorkerId(i, mw) == <<"worker", i % mw>>

\* response.raise_for_status(): every non-2xx answer, 429 included, and every
\* transport failure raises requests.exceptions.RequestException
RaisesRequestException(o) == o \in {"error", "throttled"}

\* a wrapper that lets the exception of move_page through
move_page_unguarded(r) == r

\* _move_page_with_error_handling: an exception of move_page becomes False
move_page_with_error_handling(r) == IF r = "exc" THEN "false" ELSE r

\* PATCH blocks/{id}/children and POST pages put the new node after the
\* existing children of its parent
AppendChild(s, n) == Append(s, n)

\* ------------------------------------------------------------------------
\* State of an archive run
\* ------------------------------------------------------------------------
\* Ids of destination nodes are assigned by the store and opaque to the
\* program: <<t, k>> names the k-th node created on behalf of task t.
ArchivePageId == <<0, 0>>

NoId == <<-1, -1>>

\* a run on its own, and the first of two runs that are compared
NoRun == [run |-> "only"]

FirstRun == [run |-> "first"]

VARIABLES
    world,          \* the source forest of the remote store
    use_parallel,   \* argument of archive_last_week
    max_workers,    \* argument of archive_last_week
    phase,          \* "idle", "running", "done", "crashed"
    pages_sorted,   \* candidates, as archive_last_week sorted them
    status,         \* per candidate task: "queued", "running", "finished", "collected"
    stack,          \* per candidate task: its call stack, a sequence of frames
    result,         \* per candidate task: what _move_page_with_error_handling gave
    archived,       \* source pages with archived = true
    node,           \* per task: the destination nodes it created, [src, kind]
    kids,           \* children of the archive container and of each destination node
    success_count,
    fail_count,
    usedIds,        \* per task: caller identities it passed to wait_if_needed
    attempts,       \* per task: how often move_page was entered for it
    faults,         \* failing answers given so far
    nerr,           \* per task: answers that were errors other than 429
    n429,           \* per task: answers that were 429
    answers,        \* per task: the answers its remote calls got, in order,
                    \* kept when the run is one of two that are compared
    prior,          \* NoRun: a run on its own; FirstRun: the first of two;
                    \* else what the first of the two ended with
    \* the RateLimiter and the threads calling it
    min_interval,           \* microseconds
    adaptive_interval,      \* microseconds
    consecutive_successes,
    last_request_time,      \* caller identity -> time of its last request
    lock,                   \* the thread holding RateLimiter.lock, 0: free
    rl_now,                 \* time.time(), microseconds
    rl_pc,                  \* per thread: where it is in the method it called
    rl_id,                  \* per thread: thread_id of its wait_if_needed call
    rl_wake,                \* per thread: when its time.sleep is over
    rl_t,                   \* per thread: `now` as wait_if_needed took it
    rl_rd,                  \* per thread: adaptive_interval as it read it
    rl_calls,               \* RateLimiter methods called so far
    \* one run of NotionWorkLogCreator.create_daily_log
    dl_today,               \* today, days since Monday 2025-10-27
    dl_tpl,                 \* the template page has blocks
    dl_db,                  \* the pages of the collection: [title, date, made, filled]
    dl_pc,                  \* where the run is
    dl_k,                   \* the target in hand: 1 today, 2 next business day
    dl_date,                \* the date create_work_log was called with
    dl_new,                 \* new_page_id of duplicate_page, 0: none
    dl_state,               \* per target: its state in the run
    dl_found,               \* per target: what check_existing_log gave
    dl_visits,              \* per target: calls of create_work_log
    dl_faults,              \* failed remote calls so far
    \* one call of NotionArchiver.get_pages_before_last_friday
    dq_today,               \* today, days since Monday 2025-10-27
    dq_db,                  \* the pages of the collection: [id, title, date]
    dq_pc,                  \* where the call is
    dq_cutoff,              \* cutoff_iso
    dq_cursor,              \* start_cursor, 0: None
    dq_all,                 \* all_pages
    dq_faults,              \* failed remote calls so far
    \* ---- one call of clean_block_for_copy ----
    cb_block,               \* the block passed in
    cb_pc,                  \* "idle", "called", "returned", "returned_again"
    cb_out,                 \* the value returned
    \* ---- one run of a script's main ----
    mn_script,              \* which script runs
    mn_env,                 \* the environment: variable -> value
    mn_pc,                  \* "idle", "start", "page_check", "run", "exited"
    mn_exit,                \* exit status, -1 while running
    mn_made,                \* the archiver/creator object was constructed
    mn_calls,               \* remote calls issued so far
    \* ---- the date helpers called on one date ----
    kd_date,                \* the date passed in
    kd_info,                \* what get_korean_date_info returned, << >>: not called
    kd_title                \* what get_korean_date_title returned, << >>: not called

archVars == <<world, use_parallel, max_workers, phase, pages_sorted, status, stack, result,
          archived, node, kids, success_count, fail_count, usedIds, attempts,
          faults, nerr, n429, answers, prior>>

rlVars == <<min_interval, adaptive_interval, consecutive_successes, last_request_time,
            lock, rl_now, rl_pc, rl_id, rl_wake, rl_t, rl_rd, rl_calls>>

dlVars == <<dl_today, dl_tpl, dl_db, dl_pc, dl_k, dl_date, dl_new, dl_state, dl_found,
            dl_visits, dl_faults>>

dqVars == <<dq_today, dq_db, dq_pc, dq_cutoff, dq_cursor, dq_all, dq_faults>>

cbVars == <<cb_block, cb_pc, cb_out>>

mnVars == <<mn_script, mn_env, mn_pc, mn_exit, mn_made, mn_calls>>

kdVars == <<kd_date, kd_info, kd_title>>

vars == <<archVars, rlVars, dlVars, dqVars, cbVars, mnVars, kdVars>>

\* what an archive run, the RateLimiter threads, a daily-log run leave alone
notArch == <<rlVars, dlVars, dqVars, cbVars, mnVars, kdVars>>

notRL == <<archVars, dlVars, dqVars, cbVars, mnVars, kdVars>>

notDL == <<archVars, rlVars, dqVars, cbVars, mnVars, kdVars>>

notDQ == <<archVars, rlVars, dlVars, cbVars, mnVars, kdVars>>

notCB == <<archVars, rlVars, dlVars, dqVars, mnVars, kdVars>>

notMN == <<archVars, rlVars, dlVars, dqVars, cbVars, kdVars>>

notKD == <<archVars, rlVars, dlVars, dqVars, cbVars, mnVars>>

Tasks == 1..world.n

SeqsUpTo(S, n) == UNION {[1..k -> S] : k \in 0..n}

\* a batch of n candidates with one paragraph each
BatchWorlds == {[n |-> n, top |-> [c \in 1..n |-> <<"paragraph">>]] : n \in 0..NumCandidates}

\* a single candidate with any top-level block list
TreeWorlds == {[n |-> 1, top |-> <<s>>] : s \in SeqsUpTo(BlockKinds, MaxBlocks)}

\* ------------------------------------------------------------------------
\* RateLimiter: times are integers, in microseconds
\* ------------------------------------------------------------------------
Seconds(n) == n * 1000000

\* RateLimiter(min_interval=0.2)
MinInterval == Seconds(1) \div 5

\* the cap of adaptive_interval, 1.0
MaxInterval == Seconds(1)

\* the clock of the model advances by 0.5 s
Tick == Seconds(1) \div 2

Threads == 1..NumThreads

\* the identities a thread paces under: its worker identity in move_page,
\* 'default' everywhere else
CallerIds(w) == {DefaultId, WorkerId(w - 1, NumThreads)}

\* a back-off that doubles
TimesTwo(x) == x * 2

\* x * 1.5, x * 1.2, x * 0.95, rounded down to the microsecond
Times15(x) == (x * 3) \div 2

Times12(x) == (x * 6) \div 5

Times095(x) == (x * 19) \div 20

Max(a, b) == IF a > b THEN a ELSE b

\* int(response.headers.get('Retry-After', 2)): the header, or 2 without one
RetryAfterValues == {1, 2}

\* RateLimiter(min_interval=0.2) as __init__ leaves it, no thread in it
RLInit ==
    /\ min_interval = MinInterval
    /\ adaptive_interval = MinInterval
    /\ consecutive_successes = 0
    /\ last_request_time = << >>
    /\ lock = 0
    /\ rl_now = 0
    /\ rl_pc = [w \in Threads |-> "idle"]
    /\ rl_id = [w \in Threads |-> DefaultId]
    /\ rl_wake = [w \in Threads |-> 0]
    /\ rl_t = [w \in Threads |-> 0]
    /\ rl_rd = [w \in Threads |-> 0]
    /\ rl_calls = 0

\* ------------------------------------------------------------------------
\* Dates: a day is its distance from Monday 2025-10-27
\* ------------------------------------------------------------------------
\* datetime.weekday(): 0 Monday .. 6 Sunday
Weekday(day) == day % 7

\* (year, month, day of month) of a day up to 2025-12-31
Civil(day) ==
    IF day <= 4 THEN <<2025, 10, 27 + day>>
    ELSE IF day <= 34 THEN <<2025, 11, day - 4>>
    ELSE <<2025, 12, day - 34>>

\* the labels of weekday_names, Monday first: "Mon" for 월, "Tue" for 화,
\* "Wed" for 수, "Thu" for 목, "Fri" for 금, "Sat" for 토, "Sun" for 일
WeekdayNames == <<"Mon", "Tue", "Wed", "Thu", "Fri", "Sat", "Sun">>

\* a date info whose labels start the week on Sunday
get_korean_date_info_sunday_first(date) ==
    [is_weekend |-> Weekday(date) >= 5,
     formatted_title |-> [year |-> Civil(date)[1], month |-> Civil(date)[2],
                          day |-> Civil(date)[3],
                          weekday |-> WeekdayNames[((Weekday(date) + 1) % 7) + 1]],
     iso_date |-> Civil(date)]

\* get_korean_date_info(date): formatted_title is f"{year}년 {month}월 {day}일
\* ({weekday})", iso_date is date.strftime('%Y-%m-%d')
get_korean_date_info(date) ==
    [is_weekend |-> Weekday(date) >= 5,
     formatted_title |-> [year |-> Civil(date)[1], month |-> Civil(date)[2],
                          day |-> Civil(date)[3],
                          weekday |-> WeekdayNames[Weekday(date) + 1]],
     iso_date |-> Civil(date)]

\* get_korean_date_title(date) of the archiver: the same title
get_korean_date_title(date) ==
    [year |-> Civil(date)[1], month |-> Civil(date)[2], day |-> Civil(date)[3],
     weekday |-> WeekdayNames[Weekday(date) + 1]]

\* the loop of get_next_business_day: while next_day.weekday() >= 5
RECURSIVE SkipWeekend(_)
SkipWeekend(next_day) ==
    IF Weekday(next_day) >= 5 THEN SkipWeekend(next_day + 1) ELSE next_day

\* a next day that does not look at the weekday
NextCalendarDay(date) == date + 1

get_next_business_day(date) == SkipWeekend(date + 1)

\* no daily-log run
DLIdle ==
    /\ dl_today = 0
    /\ dl_tpl = FALSE
    /\ dl_db = << >>
    /\ dl_pc = "idle"
    /\ dl_k = 0
    /\ dl_date = 0
    /\ dl_new = 0
    /\ dl_state = << >>
    /\ dl_found = << >>
    /\ dl_visits = << >>
    /\ dl_faults = 0

\* no discovery call
KDIdle ==
    /\ kd_date = 0
    /\ kd_info = << >>
    /\ kd_title = << >>

MNIdle ==
    /\ mn_script = "none"
    /\ mn_env = EmptyDict
    /\ mn_pc = "idle"
    /\ mn_exit = 0 - 1
    /\ mn_made = FALSE
    /\ mn_calls = 0

CBIdle ==
    /\ cb_block = EmptyDict
    /\ cb_pc = "idle"
    /\ cb_out = None

DQIdle ==
    /\ dq_today = 0
    /\ dq_db = << >>
    /\ dq_pc = "idle"
    /\ dq_cutoff = << >>
    /\ dq_cursor = 0
    /\ dq_all = << >>
    /\ dq_faults = 0

InitRun ==
    /\ RLInit
    /\ DLIdle
    /\ DQIdle
    /\ CBIdle
    /\ MNIdle
    /\ KDIdle
    /\ \/ world \in BatchWorlds /\ use_parallel \in BOOLEAN /\ max_workers \in 1..MaxWorkers
       \/ world \in TreeWorlds /\ use_parallel = FALSE /\ max_workers = 1
    /\ phase = "idle"
    /\ pages_sorted = << >>
    /\ status = [t \in Tasks |-> "queued"]
    /\ stack = [t \in Tasks |-> << >>]
    /\ result = [t \in Tasks |-> "none"]
    /\ archived = {}
    /\ node = [t \in Tasks |-> << >>]
    /\ kids = (ArchivePageId :> << >>)
    /\ success_count = 0
    /\ fail_count = 0
    /\ usedIds = [t \in Tasks |-> {}]
    /\ attempts = [t \in Tasks |-> 0]
    /\ faults = 0
    /\ nerr = [t \in Tasks |-> 0]
    /\ n429 = [t \in Tasks |-> 0]
    /\ answers = [t \in Tasks |-> << >>]

Init == InitRun /\ prior = NoRun

\* ------------------------------------------------------------------------
\* Call stacks
\* ------------------------------------------------------------------------
\* One frame per active call.  src: the source node read, tgt: the destination
\* node written under, blocks: a block list held by the call, i: loop index,
\* cursor/acc: pagination state, new: id of the node the call created (NoId:
\* none), rv: the list returned by the last callee that returns one.
\* A step of a task is one remote call or one wait_if_needed call together
\* with the local control flow that follows it up to the next such call.
Frame(fn, pc, src, tgt, blocks) ==
    [fn |-> fn, pc |-> pc, src |-> src, tgt |-> tgt, blocks |-> blocks,
     i |-> 1, cursor |-> 0, acc |-> << >>, new |-> NoId, rv |-> << >>]

TopOf(st) == st[Len(st)]

\* the stack with its top frame replaced
WithTop(st, f) == [st EXCEPT ![Len(st)] = f]

\* the stack after the top frame became f and called g
Call(st, f, g) == Append(WithTop(st, f), g)

\* the stack after the top frame returned the list v to its caller
Return(st, v) ==
    LET n == Len(st) IN [SubSeq(st, 1, n - 1) EXCEPT ![n - 1].rv = v]

\* the stack after the top frame returned without a value
ReturnVoid(st) == SubSeq(st, 1, Len(st) - 1)

\* the for loop of copy_blocks_to_page up to the next block that needs a
\* remote call: child_database and blocks cleaned to None are passed over
RECURSIVE Dispatch(_, _)
Dispatch(w, f) ==
    IF f.i > Len(f.blocks) THEN [f EXCEPT !.pc = "ret"]
    ELSE LET block == Block(w, f.blocks[f.i]) IN
         IF block.type = "child_page" THEN [f EXCEPT !.pc = "cp_wait"]
         ELSE IF block.type = "child_database" THEN Dispatch(w, [f EXCEPT !.i = @ + 1])
         ELSE IF clean_block_for_copy(block) = None
              THEN Dispatch(w, [f EXCEPT !.i = @ + 1])
         ELSE [f EXCEPT !.pc = "append"]

\* a copy_blocks_to_page that walks its list from the last block to the first
copy_blocks_to_page_backwards(w, target, blocks) ==
    Dispatch(w, Frame("copy_blocks_to_page", "loop", << >>, target,
                      [j \in 1..Len(blocks) |-> blocks[Len(blocks) + 1 - j]]))

\* the frame of copy_blocks_to_page(target, blocks) at its first call
copy_blocks_to_page(w, target, blocks) ==
    Dispatch(w, Frame("copy_blocks_to_page", "loop", << >>, target, blocks))

\* the loop of copy_blocks_to_page moves on to the next sibling
NextBlock(w, f) == Dispatch(w, [f EXCEPT !.i = @ + 1, !.new = NoId])

\* move_page step 1: content_blocks = get_page_blocks(page_id)
move_page_get(w, st) ==
    Call(st, [TopOf(st) EXCEPT !.pc = "create"],
         Frame("get_page_blocks", "fetch", TopOf(st).src, NoId, << >>))

\* move_page step 3: copy the content, if any, then go on to delete_page
move_page_copy(w, st) ==
    LET f == TopOf(st) IN
    IF f.blocks # << >>
    THEN Call(st, [f EXCEPT !.pc = "delete"], copy_blocks_to_page(w, f.new, f.blocks))
    ELSE WithTop(st, [f EXCEPT !.pc = "delete"])

\* a copy_blocks_to_page that has the child page copied under the child page
\* itself
copy_blocks_cp_call_into_source(w, st) ==
    LET f == TopOf(st) IN
    Call(st, NextBlock(w, f),
         Frame("copy_child_page_recursive", "getpage", f.blocks[f.i], f.blocks[f.i], << >>))

\* copy_blocks_to_page: copy_child_page_recursive(block['id'], target_page_id),
\* whatever it raises is caught, then continue with the next block
copy_blocks_cp_call(w, st) ==
    LET f == TopOf(st) IN
    Call(st, NextBlock(w, f),
         Frame("copy_child_page_recursive", "getpage", f.blocks[f.i], f.tgt, << >>))

\* a copy_blocks_to_page that copies the children of a block under the
\* target of the block itself
copy_blocks_ch_call_flat(w, st) ==
    LET f == TopOf(st) IN
    Call(st, [f EXCEPT !.pc = "post_wait"],
         Frame("copy_block_children", "get", f.blocks[f.i], f.tgt, << >>))

\* copy_blocks_to_page: copy_block_children(original_block_id, created_block_id)
copy_blocks_ch_call(w, st) ==
    LET f == TopOf(st) IN
    Call(st, [f EXCEPT !.pc = "post_wait"],
         Frame("copy_block_children", "get", f.blocks[f.i], f.new, << >>))

\* copy_block_children: child_blocks = get_page_blocks(source_block_id)
copy_block_children_get(w, st) ==
    Call(st, [TopOf(st) EXCEPT !.pc = "copy"],
         Frame("get_page_blocks", "fetch", TopOf(st).src, NoId, << >>))

\* copy_block_children: return if there is nothing, else copy_blocks_to_page
copy_block_children_copy(w, st) ==
    LET f == TopOf(st) IN
    IF f.rv = << >> THEN ReturnVoid(st)
    ELSE Call(st, [f EXCEPT !.pc = "ret"], copy_blocks_to_page(w, f.tgt, f.rv))

\* copy_child_page_recursive step 4: source_blocks = get_page_blocks(...)
copy_child_page_getblocks(w, st) ==
    Call(st, [TopOf(st) EXCEPT !.pc = "copy"],
         Frame("get_page_blocks", "fetch", TopOf(st).src, NoId, << >>))

copy_child_page_copy(w, st) ==
    LET f == TopOf(st) IN
    IF f.rv # << >>
    THEN Call(st, [f EXCEPT !.pc = "wait2", !.blocks = f.rv],
              copy_blocks_to_page(w, f.new, f.rv))
    ELSE WithTop(st, [f EXCEPT !.pc = "wait2"])

\* copy_child_page_recursive step 5: child_pages = get_child_pages(...)
copy_child_page_getchildren(w, st) ==
    Call(st, [TopOf(st) EXCEPT !.pc = "children", !.i = 1],
         Frame("get_child_pages", "fetch", TopOf(st).src, NoId, << >>))

\* copy_child_page_recursive(child_page_id, new_page_id) in the loop of step 5
copy_child_page_child_call(w, st) ==
    LET f == TopOf(st) IN
    Call(st, [f EXCEPT !.pc = "children", !.i = @ + 1],
         Frame("copy_child_page_recursive", "getpage", f.rv[f.i], f.new, << >>))

\* the top frame is at local control flow: a call, a return, a loop exit
IsControl(f) ==
    \/ f.pc = "ret"
    \/ f.fn = "move_page" /\ f.pc \in {"get", "copy"}
    \/ f.fn = "copy_blocks_to_page" /\ f.pc \in {"cp_call", "ch_call"}
    \/ f.fn = "copy_block_children"
    \/ f.fn = "copy_child_page_recursive"
         /\ (f.pc \in {"getblocks", "copy", "getchildren", "child_call"}
             \/ (f.pc = "children" /\ f.i > Len(f.rv)))

ControlStep(w, st) ==
    LET f == TopOf(st) IN
    CASE f.pc = "ret" -> ReturnVoid(st)
      [] f.fn = "move_page" /\ f.pc = "get" -> move_page_get(w, st)
      [] f.fn = "move_page" /\ f.pc = "copy" -> move_page_copy(w, st)
      [] f.fn = "copy_blocks_to_page" /\ f.pc = "cp_call" -> copy_blocks_cp_call(w, st)
      [] f.fn = "copy_blocks_to_page" /\ f.pc = "ch_call" -> copy_blocks_ch_call(w, st)
      [] f.fn = "copy_block_children" /\ f.pc = "get" -> copy_block_children_get(w, st)
      [] f.fn = "copy_block_children" /\ f.pc = "copy" -> copy_block_children_copy(w, st)
      [] f.fn = "copy_child_page_recursive" /\ f.pc = "getblocks" ->
             copy_child_page_getblocks(w, st)
      [] f.fn = "copy_child_page_recursive" /\ f.pc = "copy" -> copy_child_page_copy(w, st)
      [] f.fn = "copy_child_page_recursive" /\ f.pc = "getchildren" ->
             copy_child_page_getchildren(w, st)
      [] f.fn = "copy_child_page_recursive" /\ f.pc = "child_call" ->
             copy_child_page_child_call(w, st)
      [] f.fn = "copy_child_page_recursive" /\ f.pc = "children" -> ReturnVoid(st)

\* run the local control flow up to the next remote call or wait_if_needed;
\* s is the value of st, computed once
RECURSIVE Settle(_, _)
Settle(w, st) ==
    CHOOSE r \in {IF s = << >> THEN s
                  ELSE IF IsControl(TopOf(s)) THEN Settle(w, ControlStep(w, s))
                  ELSE s : s \in {st}} : TRUE

\* ------------------------------------------------------------------------
\* Steps of a task
\* ------------------------------------------------------------------------
Top(t) == TopOf(stack[t])

At(t, fn, pc) ==
    /\ phase = "running"
    /\ status[t] = "running"
    /\ stack[t] # << >>
    /\ Top(t).fn = fn
    /\ Top(t).pc = pc

\* task t goes on with the stack st
Goes(t, st) == stack' = [stack EXCEPT ![t] = Settle(world, st)]

\* answers a remote call can get: a failure only while the budget lasts
Outcomes == {"ok"} \cup (IF faults < MaxFailures THEN {"error", "throttled"} ELSE {})

\* a 2xx answer whose body cannot be used raises something that is no
\* RequestException (response.json()['id'] in create_page)
CreateOutcomes == Outcomes \cup (IF faults < MaxFailures THEN {"raise"} ELSE {})

\* a run that follows another one on the same candidates is given, call by
\* call, the answers the candidate got in the run before
Replayed(t, o) ==
    IF prior \in {NoRun, FirstRun} THEN TRUE
    ELSE LET given == prior.answers[pages_sorted[t]]
         IN Len(answers[t]) < Len(given) => o = given[Len(answers[t]) + 1]

Noted(t, o) ==
    /\ Replayed(t, o)
    /\ faults' = IF o = "ok" THEN faults ELSE faults + 1
    /\ nerr' = IF o \in {"error", "raise"} THEN [nerr EXCEPT ![t] = @ + 1] ELSE nerr
    /\ n429' = IF o = "throttled" THEN [n429 EXCEPT ![t] = @ + 1] ELSE n429
    /\ answers' = IF prior = NoRun THEN answers
                  ELSE [answers EXCEPT ![t] = Append(@, o)]

NoFault == UNCHANGED <<faults, nerr, n429, answers>>

ParallelPath == use_parallel /\ Len(pages_sorted) > 1

\* the caller identity move_page is given
ThreadIdOf(t) == IF ParallelPath THEN WorkerId(t - 1, max_workers) ELSE DefaultId

\* rate_limiter.wait_if_needed(id) called by task t
Waited(t, id) == usedIds' = [usedIds EXCEPT ![t] = @ \cup {id}]

\* the id the store gives the next node task t creates; it starts with 0,
\* which no id of a source node does
NewId(t) == <<0, t, Len(node[t]) + 1>>

\* the store after task t created a node copied from src under parent
Created(t, parent, src, kind) ==
    /\ node' = [node EXCEPT ![t] = Append(@, [src |-> src, kind |-> kind])]
    /\ kids' = (IF parent \in DOMAIN kids
                THEN [kids EXCEPT ![parent] = AppendChild(@, NewId(t))]
                ELSE kids @@ (parent :> AppendChild(<< >>, NewId(t))))
                  @@ (NewId(t) :> << >>)

NoWrite == UNCHANGED <<node, kids>>

Frozen == UNCHANGED <<world, use_parallel, max_workers, pages_sorted, prior, notArch>>

\* task t finished move_page with r ("true", "false", or "exc" for an exception)
Finished(t, r) ==
    /\ stack' = [stack EXCEPT ![t] = << >>]
    /\ result' = [result EXCEPT ![t] = move_page_with_error_handling(r)]
    /\ status' = [status EXCEPT ![t] = "finished"]

Running(t) == UNCHANGED <<phase, status, result, success_count, fail_count, attempts>>

\* a step that only throttles
WaitStep(t, id, st) ==
    /\ Waited(t, id)
    /\ Goes(t, st)
    /\ Frozen /\ NoWrite /\ NoFault /\ Running(t)
    /\ UNCHANGED archived

\* ------------------------------------------------------------------------
\* archive_last_week: discovery, sort, submission, counting
\* ------------------------------------------------------------------------
Perms(n) == {s \in [1..n -> 1..n] : \A a, b \in 1..n : a # b => s[a] # s[b]}

\* get_pages_before_last_friday returned the candidates in some order; sort
\* them, newest first; nothing to do without candidates
ArchiveStart ==
    /\ phase = "idle"
    /\ \E pages \in Perms(world.n) :
           pages_sorted' = SortedByDateDesc(pages)
    /\ phase' = IF world.n = 0 THEN "done" ELSE "running"
    /\ UNCHANGED <<world, use_parallel, max_workers, status, stack, result, archived,
                   node, kids, success_count, fail_count, usedIds, attempts,
                   faults, nerr, n429, answers, prior, notArch>>

\* a pool that starts every submitted task at once
StartTaskUnbounded(t) ==
    /\ phase = "running"
    /\ status[t] = "queued"
    /\ IF ParallelPath
       THEN \A j \in Tasks : j < t => status[j] # "queued"
       ELSE \A j \in Tasks : j < t => status[j] = "collected"
    /\ status' = [status EXCEPT ![t] = "running"]
    /\ Goes(t, <<Frame("move_page", "wait1", <<pages_sorted[t]>>, ArchivePageId, << >>)>>)
    /\ attempts' = [attempts EXCEPT ![t] = @ + 1]
    /\ Frozen /\ NoWrite /\ NoFault
    /\ UNCHANGED <<phase, result, archived, success_count, fail_count, usedIds>>

\* a pool whose threads each run one task and are not used again
StartTaskNoReuse(t) ==
    /\ phase = "running"
    /\ status[t] = "queued"
    /\ IF ParallelPath
       THEN /\ \A j \in Tasks : j < t => status[j] # "queued"
            /\ Cardinality({j \in Tasks : status[j] # "queued"}) < max_workers
       ELSE \A j \in Tasks : j < t => status[j] = "collected"
    /\ status' = [status EXCEPT ![t] = "running"]
    /\ Goes(t, <<Frame("move_page", "wait1", <<pages_sorted[t]>>, ArchivePageId, << >>)>>)
    /\ attempts' = [attempts EXCEPT ![t] = @ + 1]
    /\ Frozen /\ NoWrite /\ NoFault
    /\ UNCHANGED <<phase, result, archived, success_count, fail_count, usedIds>>

\* a pool thread takes the next submitted task, or the sequential loop
\* enters _move_page_with_error_handling for the next page
StartTask(t) ==
    /\ phase = "running"
    /\ status[t] = "queued"
    /\ IF ParallelPath
       THEN /\ \A j \in Tasks : j < t => status[j] # "queued"
            /\ Cardinality({j \in Tasks : status[j] = "running"}) < max_workers
       ELSE \A j \in Tasks : j < t => status[j] = "collected"
    /\ status' = [status EXCEPT ![t] = "running"]
    /\ Goes(t, <<Frame("move_page", "wait1", <<pages_sorted[t]>>, ArchivePageId, << >>)>>)
    /\ attempts' = [attempts EXCEPT ![t] = @ + 1]
    /\ Frozen /\ NoWrite /\ NoFault
    /\ UNCHANGED <<phase, result, archived, success_count, fail_count, usedIds>>

\* counters that the pool threads update without mutual exclusion: of two
\* results that are ready at the same time one increment is lost
CollectLostUpdate(t) ==
    /\ phase = "running"
    /\ status[t] = "finished"
    /\ LET ready == IF ParallelPath THEN {u \in Tasks : status[u] = "finished"} ELSE {t}
       IN status' = [u \in Tasks |-> IF u \in ready THEN "collected" ELSE status[u]]
    /\ success_count' = IF result[t] = "true" THEN success_count + 1 ELSE success_count
    /\ fail_count' = IF result[t] = "false" THEN fail_count + 1 ELSE fail_count
    /\ UNCHANGED phase
    /\ Frozen /\ NoWrite /\ NoFault
    /\ UNCHANGED <<stack, result, archived, usedIds, attempts>>

\* a coordinating thread that leaves out of both counters the candidate one
\* of whose calls met an error
CollectReturnedOnly(t) ==
    /\ phase = "running"
    /\ status[t] = "finished"
    /\ status' = [status EXCEPT ![t] = "collected"]
    /\ success_count' = IF result[t] = "true" /\ nerr[t] = 0 THEN success_count + 1
                        ELSE success_count
    /\ fail_count' = IF result[t] = "false" /\ nerr[t] = 0 THEN fail_count + 1
                     ELSE fail_count
    /\ UNCHANGED phase
    /\ Frozen /\ NoWrite /\ NoFault
    /\ UNCHANGED <<stack, result, archived, usedIds, attempts>>

\* the coordinating thread takes one result: as_completed / the loop body.
\* An exception out of a future is counted as a failure; an exception out of
\* the sequential loop ends archive_last_week.
Collect(t) ==
    /\ phase = "running"
    /\ status[t] = "finished"
    /\ status' = [status EXCEPT ![t] = "collected"]
    /\ success_count' = IF result[t] = "true" THEN success_count + 1 ELSE success_count
    /\ fail_count' = IF result[t] = "false" \/ (result[t] = "exc" /\ ParallelPath)
                     THEN fail_count + 1 ELSE fail_count
    /\ phase' = IF result[t] = "exc" /\ ~ParallelPath THEN "crashed" ELSE phase
    /\ Frozen /\ NoWrite /\ NoFault
    /\ UNCHANGED <<stack, result, archived, usedIds, attempts>>

\* the summary is logged once every candidate was counted
Summary ==
    /\ phase = "running"
    /\ \A t \in Tasks : status[t] = "collected"
    /\ phase' = "done"
    /\ UNCHANGED <<world, use_parallel, max_workers, pages_sorted, status, stack, result,
                   archived, node, kids, success_count, fail_count, usedIds, attempts,
                   faults, nerr, n429, answers, prior, notArch>>

\* ------------------------------------------------------------------------
\* move_page
\* ------------------------------------------------------------------------
move_page_wait1(t) ==
    /\ At(t, "move_page", "wait1")
    /\ WaitStep(t, ThreadIdOf(t), WithTop(stack[t], [Top(t) EXCEPT !.pc = "get"]))

\* create_page(archive_page_id, title); content_blocks is what get_page_blocks gave
move_page_create(t) ==
    /\ At(t, "move_page", "create")
    /\ \E o \in CreateOutcomes :
        /\ Noted(t, o)
        /\ IF o = "ok"
           THEN /\ Created(t, ArchivePageId, Top(t).src, "page")
                /\ Goes(t, WithTop(stack[t], [Top(t) EXCEPT !.pc = "wait2",
                                                             !.blocks = Top(t).rv,
                                                             !.new = NewId(t)]))
                /\ UNCHANGED <<status, result>>
           ELSE /\ NoWrite
                /\ Finished(t, IF RaisesRequestException(o) THEN "false" ELSE "exc")
    /\ Frozen
    /\ UNCHANGED <<phase, archived, success_count, fail_count, usedIds, attempts>>

move_page_wait2(t) ==
    /\ At(t, "move_page", "wait2")
    /\ WaitStep(t, ThreadIdOf(t), WithTop(stack[t], [Top(t) EXCEPT !.pc = "copy"]))

\* a move_page that archives the source first and copies the content after
move_page_delete_then_copy(t) ==
    /\ At(t, "move_page", "delete")
    /\ \E o \in Outcomes :
        /\ Noted(t, o)
        /\ archived' = archived \cup {Top(t).src}
    /\ Goes(t, Call(stack[t], [Top(t) EXCEPT !.pc = "ret"],
                    copy_blocks_to_page(world, Top(t).new, Top(t).blocks)))
    /\ Frozen /\ NoWrite /\ Running(t)
    /\ UNCHANGED usedIds

\* delete_page: PATCH pages/{id} {"archived": true}
move_page_delete(t) ==
    /\ At(t, "move_page", "delete")
    /\ \E o \in Outcomes :
        /\ Noted(t, o)
        /\ archived' = IF RaisesRequestException(o) THEN archived
                       ELSE archived \cup {Top(t).src}
        /\ Finished(t, IF RaisesRequestException(o) THEN "false" ELSE "true")
    /\ Frozen /\ NoWrite
    /\ UNCHANGED <<phase, success_count, fail_count, usedIds, attempts>>

\* ------------------------------------------------------------------------
\* get_page_blocks and get_child_pages: one GET per step
\* ------------------------------------------------------------------------
\* a get_page_blocks that returns what it collected before the failure
get_page_blocks_fetch_partial(t) ==
    /\ At(t, "get_page_blocks", "fetch")
    /\ \E o \in Outcomes :
        /\ Noted(t, o)
        /\ LET f == Top(t)
               data == ListPage(world, f.src, f.cursor)
               all_blocks == f.acc \o data.results
           IN Goes(t, IF RaisesRequestException(o) THEN Return(stack[t], f.acc)
                      ELSE IF data.has_more
                           THEN WithTop(stack[t], [f EXCEPT !.acc = all_blocks,
                                                            !.cursor = data.next_cursor])
                      ELSE Return(stack[t], all_blocks))
    /\ Frozen /\ NoWrite /\ Running(t)
    /\ UNCHANGED <<archived, usedIds>>

\* a failing GET makes get_page_blocks return [] whatever it had read
get_page_blocks_fetch(t) ==
    /\ At(t, "get_page_blocks", "fetch")
    /\ \E o \in Outcomes :
        /\ Noted(t, o)
        /\ LET f == Top(t)
               data == ListPage(world, f.src, f.cursor)
               all_blocks == f.acc \o data.results
           IN Goes(t, IF RaisesRequestException(o) THEN Return(stack[t], << >>)
                      ELSE IF data.has_more
                           THEN WithTop(stack[t], [f EXCEPT !.acc = all_blocks,
                                                            !.cursor = data.next_cursor])
                      ELSE Return(stack[t], all_blocks))
    /\ Frozen /\ NoWrite /\ Running(t)
    /\ UNCHANGED <<archived, usedIds>>

ChildPagesOf(w, s) == SelectSeq(s, LAMBDA b : Block(w, b).type = "child_page")

get_child_pages_fetch(t) ==
    /\ At(t, "get_child_pages", "fetch")
    /\ \E o \in Outcomes :
        /\ Noted(t, o)
        /\ LET f == Top(t)
               data == ListPage(world, f.src, f.cursor)
               child_pages == f.acc \o ChildPagesOf(world, data.results)
           IN Goes(t, IF RaisesRequestException(o) THEN Return(stack[t], << >>)
                      ELSE IF data.has_more
                           THEN WithTop(stack[t], [f EXCEPT !.acc = child_pages,
                                                            !.cursor = data.next_cursor])
                      ELSE Return(stack[t], child_pages))
    /\ Frozen /\ NoWrite /\ Running(t)
    /\ UNCHANGED <<archived, usedIds>>

\* ------------------------------------------------------------------------
\* copy_blocks_to_page
\* ------------------------------------------------------------------------
\* child_page block: wait_if_needed() before the recursive copy
copy_blocks_cp_wait(t) ==
    /\ At(t, "copy_blocks_to_page", "cp_wait")
    /\ WaitStep(t, DefaultId, WithTop(stack[t], [Top(t) EXCEPT !.pc = "cp_call"]))

\* PATCH blocks/{target}/children with the one cleaned block; a failure is
\* logged and the loop goes on
copy_blocks_append(t) ==
    /\ At(t, "copy_blocks_to_page", "append")
    /\ \E o \in Outcomes :
        /\ Noted(t, o)
        /\ LET f == Top(t)
               block == Block(world, f.blocks[f.i])
           IN IF RaisesRequestException(o)
              THEN /\ NoWrite
                   /\ Goes(t, WithTop(stack[t], NextBlock(world, f)))
              ELSE /\ Created(t, f.tgt, block.id, clean_block_for_copy(block).type)
                   /\ Goes(t, WithTop(stack[t],
                          [f EXCEPT !.new = NewId(t),
                                    !.pc = IF block.has_children THEN "ch_wait"
                                           ELSE "post_wait"]))
    /\ Frozen /\ Running(t)
    /\ UNCHANGED <<archived, usedIds>>

\* the appended block has children: wait_if_needed() before copying them
copy_blocks_ch_wait(t) ==
    /\ At(t, "copy_blocks_to_page", "ch_wait")
    /\ WaitStep(t, DefaultId, WithTop(stack[t], [Top(t) EXCEPT !.pc = "ch_call"]))

\* the wait that ends the handling of an appended block
copy_blocks_post_wait(t) ==
    /\ At(t, "copy_blocks_to_page", "post_wait")
    /\ WaitStep(t, DefaultId, WithTop(stack[t], NextBlock(world, Top(t))))

\* ------------------------------------------------------------------------
\* copy_child_page_recursive: everything it raises is caught and it returns
\* ------------------------------------------------------------------------
\* 1-2. GET pages/{source_page_id} for the title
copy_child_page_getpage(t) ==
    /\ At(t, "copy_child_page_recursive", "getpage")
    /\ \E o \in Outcomes :
        /\ Noted(t, o)
        /\ Goes(t, IF RaisesRequestException(o) THEN ReturnVoid(stack[t])
                   ELSE WithTop(stack[t], [Top(t) EXCEPT !.pc = "create"]))
    /\ Frozen /\ NoWrite /\ Running(t)
    /\ UNCHANGED <<archived, usedIds>>

\* 3. create_page(target_parent_id, title); no page, no copy
copy_child_page_create(t) ==
    /\ At(t, "copy_child_page_recursive", "create")
    /\ \E o \in CreateOutcomes :
        /\ Noted(t, o)
        /\ IF o = "ok"
           THEN /\ Created(t, Top(t).tgt, Top(t).src, "page")
                /\ Goes(t, WithTop(stack[t], [Top(t) EXCEPT !.pc = "wait1",
                                                             !.new = NewId(t)]))
           ELSE /\ NoWrite
                /\ Goes(t, ReturnVoid(stack[t]))
    /\ Frozen /\ Running(t)
    /\ UNCHANGED <<archived, usedIds>>

copy_child_page_wait1(t) ==
    /\ At(t, "copy_child_page_recursive", "wait1")
    /\ WaitStep(t, DefaultId, WithTop(stack[t], [Top(t) EXCEPT !.pc = "getblocks"]))

copy_child_page_wait2(t) ==
    /\ At(t, "copy_child_page_recursive", "wait2")
    /\ WaitStep(t, DefaultId, WithTop(stack[t], [Top(t) EXCEPT !.pc = "getchildren"]))

\* for child_page in child_pages: wait_if_needed() before the recursive copy
copy_child_page_children(t) ==
    /\ At(t, "copy_child_page_recursive", "children")
    /\ WaitStep(t, DefaultId, WithTop(stack[t], [Top(t) EXCEPT !.pc = "child_call"]))

\* ------------------------------------------------------------------------
\* The archive run
\* ------------------------------------------------------------------------
Next ==
    \/ ArchiveStart
    \/ Summary
    \/ \E t \in Tasks : StartTask(t)
    \/ \E t \in Tasks : Collect(t)
    \/ \E t \in Tasks : move_page_wait1(t)
    \/ \E t \in Tasks : move_page_create(t)
    \/ \E t \in Tasks : move_page_wait2(t)
    \/ \E t \in Tasks : move_page_delete(t)
    \/ \E t \in Tasks : get_page_blocks_fetch(t)
    \/ \E t \in Tasks : get_child_pages_fetch(t)
    \/ \E t \in Tasks : copy_blocks_cp_wait(t)
    \/ \E t \in Tasks : copy_blocks_append(t)
    \/ \E t \in Tasks : copy_blocks_ch_wait(t)
    \/ \E t \in Tasks : copy_blocks_post_wait(t)
    \/ \E t \in Tasks : copy_child_page_getpage(t)
    \/ \E t \in Tasks : copy_child_page_create(t)
    \/ \E t \in Tasks : copy_child_page_wait1(t)
    \/ \E t \in Tasks : copy_child_page_wait2(t)
    \/ \E t \in Tasks : copy_child_page_children(t)

Spec == Init /\ [][Next]_vars

\* ------------------------------------------------------------------------
\* Reading the destination store
\* ------------------------------------------------------------------------
NodeOf(id) == node[id[2]][id[3]]

\* the source nodes the destination nodes ids were copied from
Origins(ids) == [j \in 1..Len(ids) |-> NodeOf(ids[j]).src]

\* the members of a source block list that replication is to reproduce:
\* child pages, and blocks that clean_block_for_copy keeps
Copyable(w, s) ==
    SelectSeq(s, LAMBDA b : \/ Block(w, b).type = "child_page"
                           \/ clean_block_for_copy(Block(w, b)) # None)

\* destination node d carries a faithful copy of the subtree of source node p
RECURSIVE Mirror(_, _)
Mirror(d, p) ==
    LET want == Copyable(world, Listing(world, p))
        have == kids[d]
    IN /\ Len(have) = Len(want)
       /\ \A j \in 1..Len(have) :
            /\ NodeOf(have[j]).src = want[j]
            /\ Mirror(have[j], want[j])

\* the page task t created under the archive container, once it has one
DestPage(t) == <<0, t, 1>>

HasDest(t) == node[t] # << >>

Done(t) == status[t] \in {"finished", "collected"}

FaultFree(t) == nerr[t] = 0 /\ n429[t] = 0

\* task t replicated its candidate completely
Replicated(t) == HasDest(t) /\ Mirror(DestPage(t), <<pages_sorted[t]>>)

Started == phase # "idle"

\* o lists members of B in the order of B, none twice
OrderedSubseq(o, B) ==
    \E pos \in [1..Len(o) -> 1..Len(B)] :
        /\ \A j \in 1..Len(o) : B[pos[j]] = o[j]
        /\ \A j, k \in 1..Len(o) : j < k => pos[j] < pos[k]

\* ------------------------------------------------------------------------
\* Claims on the archive run
\* ------------------------------------------------------------------------
\* C1 (as claimed): a source page is archived only when its replication under
\* the archive container succeeded, i.e. the destination page exists and
\* carries a faithful copy of everything copyable below the source page.
C1_DataLossGuard ==
    Started => \A t \in Tasks : <<pages_sorted[t]>> \in archived => Replicated(t)

\* C2 (as claimed): in a finished batch of N >= 2 candidates in which the
\* replication of exactly one failed, exactly the other N-1 sources are
\* archived and the counts are success = N-1 and failure = 1.
C2_BatchAccounting ==
    (/\ phase = "done"
     /\ Len(pages_sorted) >= 2
     /\ Cardinality({t \in Tasks : ~Replicated(t)}) = 1)
    => /\ archived = {<<pages_sorted[t]>> : t \in {u \in Tasks : Replicated(u)}}
       /\ success_count = Len(pages_sorted) - 1
       /\ fail_count = 1

\* C3 (as claimed): a replication in which no call failed leaves a destination
\* tree with the depth of the source tree and the source's sibling sequence at
\* every level.
C3_TreeReplicated ==
    \A t \in Tasks : (Done(t) /\ result[t] = "true" /\ FaultFree(t)) => Replicated(t)

\* C4: copy_blocks_to_page(target, B) puts under the target members of B only,
\* each at most once and in the order of B; as long as no call of the task
\* failed, it has put there every copyable member of B it is through with,
\* and all of them once it has returned to move_page.
C4_OrderPreserved ==
    \A t \in Tasks :
        /\ \A k \in 2..Len(stack[t]) :
             LET f == stack[t][k]
                 caller == stack[t][k - 1]
                 B == IF caller.fn = "copy_block_children" THEN caller.rv
                      ELSE caller.blocks
                 through == IF f.pc \in {"ch_wait", "post_wait"} THEN f.i ELSE f.i - 1
             IN f.fn = "copy_blocks_to_page" =>
                  /\ OrderedSubseq(Origins(kids[f.tgt]), B)
                  /\ (k = Len(stack[t]) /\ FaultFree(t)) =>
                        Origins(kids[f.tgt]) = Copyable(world, SubSeq(B, 1, through))
        /\ (Done(t) /\ result[t] = "true" /\ FaultFree(t)) =>
              Origins(kids[DestPage(t)]) = Copyable(world, Listing(world, <<pages_sorted[t]>>))

\* C4 witness: a copy_blocks_to_page call has put two members of its list
\* under its target
C4_Witness ==
    \E t \in Tasks : \E k \in 1..Len(stack[t]) :
        /\ stack[t][k].fn = "copy_blocks_to_page"
        /\ Len(stack[t][k].blocks) >= 2
        /\ Len(kids[stack[t][k].tgt]) >= 2

\* C5: every candidate is attempted at most once, no failure or exception of
\* a candidate ends the run early, and when the run is over every candidate
\* was attempted exactly once.
C5_EveryCandidateOnce ==
    /\ phase # "crashed"
    /\ \A t \in Tasks : attempts[t] <= 1
    /\ phase = "done" => \A t \in Tasks : attempts[t] = 1

\* C5 witness: a finished batch in which a candidate before the last one failed
C5_Witness ==
    /\ phase = "done"
    /\ \E t \in Tasks : t < Len(pages_sorted) /\ result[t] = "false" /\ nerr[t] > 0
    /\ \A t \in Tasks : attempts[t] = 1

\* C6 (as claimed): two candidate tasks in progress at the same time never
\* passed the same caller identity to wait_if_needed.
C6_DistinctCallerIds ==
    \A a, b \in Tasks :
        (a # b /\ status[a] = "running" /\ status[b] = "running")
        => usedIds[a] \cap usedIds[b] = {}

\* C7 (as claimed): the pages under the archive container are in descending
\* date order of their sources.
C7_NewestFirst ==
    LET made == Origins(kids[ArchivePageId]) IN
    \A j, k \in 1..Len(made) : j < k => DateOf(made[j][1]) >= DateOf(made[k][1])

\* C8 (as claimed): a candidate whose only failing answers were 429s is not
\* counted as failed and none of its top-level blocks or child pages is skipped.
C8_ThrottleTransparent ==
    \A t \in Tasks :
        (Done(t) /\ n429[t] > 0 /\ nerr[t] = 0)
        => /\ result[t] = "true"
           /\ HasDest(t)
           /\ Origins(kids[DestPage(t)]) =
                 Copyable(world, Listing(world, <<pages_sorted[t]>>))

\* ------------------------------------------------------------------------
\* The RateLimiter under concurrent callers
\* ------------------------------------------------------------------------
\* no archive run: the store is empty and nothing is submitted
ArchIdle ==
    /\ world = [n |-> 0, top |-> << >>]
    /\ use_parallel = FALSE
    /\ max_workers = 1
    /\ phase = "idle"
    /\ pages_sorted = << >>
    /\ status = << >>
    /\ stack = << >>
    /\ result = << >>
    /\ archived = {}
    /\ node = << >>
    /\ kids = (ArchivePageId :> << >>)
    /\ success_count = 0
    /\ fail_count = 0
    /\ usedIds = << >>
    /\ attempts = << >>
    /\ faults = 0
    /\ nerr = << >>
    /\ n429 = << >>
    /\ answers = << >>
    /\ prior = NoRun

\* the limiter as constructed or after nine successes in a row, the interval
\* at its start value or at 0.81 s, where three 429s and a failure take it,
\* no request stamped yet or one under 'default' just now
InitRL ==
    /\ ArchIdle
    /\ DLIdle
    /\ DQIdle
    /\ CBIdle
    /\ MNIdle
    /\ KDIdle
    /\ min_interval = MinInterval
    /\ consecutive_successes \in {0, 9}
    /\ adaptive_interval \in {MinInterval, Times12(Times15(Times15(Times15(MinInterval))))}
    /\ last_request_time \in {<< >>, (DefaultId :> 0)}
    /\ lock = 0
    /\ rl_now = 0
    /\ rl_pc = [w \in Threads |-> "idle"]
    /\ rl_id = [w \in Threads |-> DefaultId]
    /\ rl_wake = [w \in Threads |-> 0]
    /\ rl_t = [w \in Threads |-> 0]
    /\ rl_rd = [w \in Threads |-> 0]
    /\ rl_calls = 0

RLAt(w, pc) == rl_pc[w] = pc

RLGoto(w, pc) == rl_pc' = [rl_pc EXCEPT ![w] = pc]

\* thread w returns from the method it is in: its locals are gone
RLReturn(w) ==
    /\ rl_pc' = [rl_pc EXCEPT ![w] = "idle"]
    /\ rl_id' = [rl_id EXCEPT ![w] = DefaultId]
    /\ rl_wake' = [rl_wake EXCEPT ![w] = 0]
    /\ rl_t' = [rl_t EXCEPT ![w] = 0]
    /\ rl_rd' = [rl_rd EXCEPT ![w] = 0]

\* a thread calls one of the methods
RLCalls(w) ==
    /\ RLAt(w, "idle")
    /\ rl_calls < MaxCalls
    /\ rl_calls' = rl_calls + 1

RLSame == UNCHANGED <<notRL, min_interval>>

\* wait_if_needed(thread_id): called, about to enter `with self.lock`
wait_if_needed_call(w) ==
    /\ RLCalls(w)
    /\ \E id \in CallerIds(w) : rl_id' = [rl_id EXCEPT ![w] = id]
    /\ RLGoto(w, "w_lock")
    /\ RLSame
    /\ UNCHANGED <<adaptive_interval, consecutive_successes, last_request_time, lock,
                   rl_now, rl_wake, rl_t, rl_rd>>

\* a thread at the `with self.lock` of wait_if_needed gets the lock when it
\* is free
AcquireLock(w) ==
    /\ RLAt(w, "w_lock")
    /\ lock = 0
    /\ lock' = w
    /\ RLGoto(w, "w_body")
    /\ RLSame
    /\ UNCHANGED <<adaptive_interval, consecutive_successes, last_request_time,
                   rl_now, rl_id, rl_wake, rl_t, rl_rd, rl_calls>>

\* a wait_if_needed that does not sleep
SleepTimeNone(interval, elapsed) == 0

\* sleep_time = self.adaptive_interval - elapsed
SleepTime(interval, elapsed) == interval - elapsed

\* wait_if_needed, inside the lock: now = time.time(); when the caller has a
\* last request and elapsed < self.adaptive_interval go on to compute the
\* sleep, else stamp the request and leave
wait_if_needed_body(w) ==
    /\ RLAt(w, "w_body")
    /\ LET thread_id == rl_id[w]
           elapsed == rl_now - last_request_time[thread_id]
       IN IF thread_id \in DOMAIN last_request_time /\ elapsed < adaptive_interval
          THEN /\ rl_t' = [rl_t EXCEPT ![w] = rl_now]
               /\ rl_rd' = [rl_rd EXCEPT ![w] = adaptive_interval]
               /\ RLGoto(w, "w_calc")
               /\ UNCHANGED <<last_request_time, lock, rl_id, rl_wake>>
          ELSE /\ last_request_time' = (thread_id :> rl_now) @@ last_request_time
               /\ lock' = 0
               /\ RLReturn(w)
    /\ RLSame
    /\ UNCHANGED <<adaptive_interval, consecutive_successes, rl_now, rl_calls>>

\* wait_if_needed: self.adaptive_interval is read a second time for
\* sleep_time, and time.sleep(sleep_time) starts, the lock held; a negative
\* sleep_time makes time.sleep raise ValueError, which leaves the lock and
\* the method without a stamp
wait_if_needed_sleep(w) ==
    /\ RLAt(w, "w_calc")
    /\ LET elapsed == rl_t[w] - last_request_time[rl_id[w]]
           sleep_time == SleepTime(adaptive_interval, elapsed)
       IN IF sleep_time < 0
          THEN /\ lock' = 0
               /\ RLReturn(w)
          ELSE /\ rl_wake' = [rl_wake EXCEPT ![w] = rl_now + sleep_time]
               /\ rl_rd' = [rl_rd EXCEPT ![w] = adaptive_interval]
               /\ RLGoto(w, "w_sleep")
               /\ UNCHANGED <<lock, rl_id, rl_t>>
    /\ RLSame
    /\ UNCHANGED <<adaptive_interval, consecutive_successes, last_request_time, rl_now,
                   rl_calls>>

\* wait_if_needed: the sleep is over; stamp the request and leave the lock
wait_if_needed_wake(w) ==
    /\ RLAt(w, "w_sleep")
    /\ rl_now >= rl_wake[w]
    /\ last_request_time' = (rl_id[w] :> rl_now) @@ last_request_time
    /\ lock' = 0
    /\ RLReturn(w)
    /\ RLSame
    /\ UNCHANGED <<adaptive_interval, consecutive_successes, rl_now, rl_calls>>

\* handle_rate_limit_error(response): nothing for a status other than 429,
\* else time.sleep(retry_after), outside any lock
handle_rate_limit_error_call(w) ==
    /\ RLCalls(w)
    /\ \E status_code \in {200, 429} : \E retry_after \in RetryAfterValues :
         IF status_code = 429
         THEN /\ rl_wake' = [rl_wake EXCEPT ![w] = rl_now + Seconds(retry_after)]
              /\ RLGoto(w, "h_sleep")
         ELSE UNCHANGED <<rl_wake, rl_pc>>
    /\ UNCHANGED rl_t
    /\ RLSame
    /\ UNCHANGED <<adaptive_interval, consecutive_successes, last_request_time, lock,
                   rl_now, rl_id, rl_rd>>

\* handle_rate_limit_error: the sleep is over, self.adaptive_interval is read
handle_rate_limit_error_read(w) ==
    /\ RLAt(w, "h_sleep")
    /\ rl_now >= rl_wake[w]
    /\ rl_rd' = [rl_rd EXCEPT ![w] = adaptive_interval]
    /\ RLGoto(w, "h_write")
    /\ RLSame
    /\ UNCHANGED <<adaptive_interval, consecutive_successes, last_request_time, lock,
                   rl_now, rl_id, rl_wake, rl_t, rl_calls>>

\* a handle_rate_limit_error that grows the interval without the cap
handle_rate_limit_error_write_uncapped(w) ==
    /\ RLAt(w, "h_write")
    /\ adaptive_interval' = Times15(rl_rd[w])
    /\ RLReturn(w)
    /\ RLSame
    /\ UNCHANGED <<consecutive_successes, last_request_time, lock, rl_now, rl_calls>>

\* handle_rate_limit_error: self.adaptive_interval = min(read * 1.5, 1.0)
handle_rate_limit_error_write(w) ==
    /\ RLAt(w, "h_write")
    /\ adaptive_interval' = Min(Times15(rl_rd[w]), MaxInterval)
    /\ RLReturn(w)
    /\ RLSame
    /\ UNCHANGED <<consecutive_successes, last_request_time, lock, rl_now, rl_calls>>

\* record_success(): called, `with self.lock` entered once the lock is free
record_success_call(w) ==
    /\ RLCalls(w)
    /\ lock = 0
    /\ lock' = w
    /\ RLGoto(w, "rs_body")
    /\ RLSame
    /\ UNCHANGED <<adaptive_interval, consecutive_successes, last_request_time,
                   rl_now, rl_id, rl_wake, rl_t, rl_rd>>

\* record_success, inside the lock: count, and past 10 read the interval
record_success_body(w) ==
    /\ RLAt(w, "rs_body")
    /\ IF consecutive_successes + 1 > 10
       THEN /\ consecutive_successes' = consecutive_successes + 1
            /\ rl_rd' = [rl_rd EXCEPT ![w] = adaptive_interval]
            /\ RLGoto(w, "rs_write")
            /\ UNCHANGED lock
       ELSE /\ consecutive_successes' = consecutive_successes + 1
            /\ lock' = 0
            /\ RLGoto(w, "idle")
            /\ UNCHANGED rl_rd
    /\ RLSame
    /\ UNCHANGED <<adaptive_interval, last_request_time, rl_now, rl_id, rl_wake, rl_t,
                   rl_calls>>

\* record_success: adaptive_interval = max(read * 0.95, min_interval), streak 0
record_success_write(w) ==
    /\ RLAt(w, "rs_write")
    /\ adaptive_interval' = Max(Times095(rl_rd[w]), min_interval)
    /\ consecutive_successes' = 0
    /\ lock' = 0
    /\ RLReturn(w)
    /\ RLSame
    /\ UNCHANGED <<last_request_time, rl_now, rl_calls>>

\* record_failure(): called, `with self.lock` entered once the lock is free
record_failure_call(w) ==
    /\ RLCalls(w)
    /\ lock = 0
    /\ lock' = w
    /\ RLGoto(w, "rf_body")
    /\ RLSame
    /\ UNCHANGED <<adaptive_interval, consecutive_successes, last_request_time,
                   rl_now, rl_id, rl_wake, rl_t, rl_rd>>

\* record_failure, inside the lock: streak 0, the interval is read
record_failure_body(w) ==
    /\ RLAt(w, "rf_body")
    /\ consecutive_successes' = 0
    /\ rl_rd' = [rl_rd EXCEPT ![w] = adaptive_interval]
    /\ RLGoto(w, "rf_write")
    /\ RLSame
    /\ UNCHANGED <<adaptive_interval, last_request_time, lock, rl_now, rl_id, rl_wake, rl_t,
                   rl_calls>>

\* record_failure: adaptive_interval = min(read * 1.2, 1.0)
record_failure_write(w) ==
    /\ RLAt(w, "rf_write")
    /\ adaptive_interval' = Min(Times12(rl_rd[w]), MaxInterval)
    /\ lock' = 0
    /\ RLReturn(w)
    /\ RLSame
    /\ UNCHANGED <<consecutive_successes, last_request_time, rl_now, rl_calls>>

\* time passes
ClockTick ==
    /\ rl_now < MaxTicks * Tick
    /\ rl_now' = rl_now + Tick
    /\ RLSame
    /\ UNCHANGED <<adaptive_interval, consecutive_successes, last_request_time, lock,
                   rl_pc, rl_id, rl_wake, rl_t, rl_rd, rl_calls>>

NextRL ==
    \/ ClockTick
    \/ \E w \in Threads : wait_if_needed_call(w)
    \/ \E w \in Threads : AcquireLock(w)
    \/ \E w \in Threads : wait_if_needed_body(w)
    \/ \E w \in Threads : wait_if_needed_sleep(w)
    \/ \E w \in Threads : wait_if_needed_wake(w)
    \/ \E w \in Threads : handle_rate_limit_error_call(w)
    \/ \E w \in Threads : handle_rate_limit_error_read(w)
    \/ \E w \in Threads : handle_rate_limit_error_write(w)
    \/ \E w \in Threads : record_success_call(w)
    \/ \E w \in Threads : record_success_body(w)
    \/ \E w \in Threads : record_success_write(w)
    \/ \E w \in Threads : record_failure_call(w)
    \/ \E w \in Threads : record_failure_body(w)
    \/ \E w \in Threads : record_failure_write(w)

SpecRL == InitRL /\ [][NextRL]_vars

\* ------------------------------------------------------------------------
\* Claims on the RateLimiter
\* ------------------------------------------------------------------------
\* C9 (as claimed): no update of the adaptive interval is lost: a thread that
\* is about to write the interval computed from the value it read finds that
\* value still in place.
C9_NoLostUpdate ==
    \A w \in Threads :
        rl_pc[w] \in {"h_write", "rs_write", "rf_write"} => rl_rd[w] = adaptive_interval

\* the interval of caller identity id has elapsed: wait_if_needed(id) has
\* nothing to wait for
Elapsed(id) ==
    id \in DOMAIN last_request_time => rl_now - last_request_time[id] >= adaptive_interval

\* C10 (as claimed): a wait_if_needed call whose own interval has elapsed is
\* never held up by the pacing sleep of a thread under another identity.
C10_IndependentPacing ==
    \A a, b \in Threads :
        ~(/\ a # b
          /\ rl_pc[a] = "w_lock"
          /\ Elapsed(rl_id[a])
          /\ lock = b
          /\ rl_pc[b] = "w_sleep"
          /\ rl_id[b] # rl_id[a]
          /\ rl_now < rl_wake[b])

\* thread w returns from wait_if_needed in this step, having stamped its
\* caller identity
Stamps(w) ==
    /\ rl_pc[w] \in {"w_body", "w_sleep"}
    /\ rl_pc'[w] = "idle"

\* C11: whenever a wait_if_needed call returns under a caller identity that
\* has a last request, the time it stamps is later than that last request by
\* at least the adaptive interval the call read, whatever the other threads
\* do meanwhile; a call under an identity without a last request returns at
\* once.
C11_ThrottleSpacing ==
    [][\A w \in Threads :
          Stamps(w) =>
            IF rl_id[w] \in DOMAIN last_request_time
            THEN last_request_time'[rl_id[w]] - last_request_time[rl_id[w]]
                   >= (IF rl_pc[w] = "w_sleep" THEN rl_rd[w] ELSE adaptive_interval)
            ELSE rl_pc[w] = "w_body" /\ last_request_time'[rl_id[w]] = rl_now]_vars

\* C11 witness: a second call under an identity had to sleep, the sleep is
\* over and the call is about to return, while another thread is in a method
C11_Witness ==
    \E w \in Threads :
        /\ rl_pc[w] = "w_sleep"
        /\ rl_id[w] \in DOMAIN last_request_time
        /\ rl_now >= rl_wake[w]
        /\ rl_wake[w] >= last_request_time[rl_id[w]] + rl_rd[w]
        /\ \E u \in Threads : u # w /\ rl_pc[u] # "idle"

\* C12 (as claimed): the record_success call that brings the streak to 10
\* decays the interval by 5%, floored at min_interval, and resets the streak
\* to 0; a call that leaves the streak below 10 only counts.
C12_DecayAtTenth ==
    [][\A w \in Threads :
          /\ (rl_pc[w] = "rs_body" /\ rl_pc'[w] # "rs_body") =>
                IF consecutive_successes + 1 >= 10
                THEN rl_pc'[w] = "rs_write"
                ELSE /\ rl_pc'[w] = "idle"
                     /\ consecutive_successes' = consecutive_successes + 1
                     /\ adaptive_interval' = adaptive_interval
          /\ (rl_pc[w] = "rs_write" /\ rl_pc'[w] # "rs_write") =>
                /\ adaptive_interval' = Max(Times095(rl_rd[w]), min_interval)
                /\ consecutive_successes' = 0]_vars

\* C13: handle_rate_limit_error with a 429 sleeps the retry-after seconds and
\* only then sets the interval to min(1.5 * the interval it read, 1.0 s),
\* touching nothing else; with another status it changes nothing;
\* record_failure resets the streak to 0 and sets the interval to
\* min(1.2 * the interval it read, 1.0 s).
C13_BackOff ==
    [][\A w \in Threads :
          /\ (rl_pc[w] = "idle" /\ rl_pc'[w] = "h_sleep") =>
                \E r \in RetryAfterValues : rl_wake'[w] = rl_now + r * 1000000
          /\ (rl_pc[w] = "h_sleep" /\ rl_pc'[w] = "h_write") =>
                /\ rl_now >= rl_wake[w]
                /\ adaptive_interval' = adaptive_interval
          /\ (rl_pc[w] = "h_write" /\ rl_pc'[w] = "idle") =>
                /\ adaptive_interval' = Min((3 * rl_rd[w]) \div 2, 1000000)
                /\ UNCHANGED <<consecutive_successes, last_request_time, lock>>
          /\ (rl_calls' # rl_calls /\ rl_pc' = rl_pc) =>
                UNCHANGED <<adaptive_interval, consecutive_successes, last_request_time,
                            lock>>
          /\ (rl_pc[w] = "rf_body" /\ rl_pc'[w] = "rf_write") =>
                consecutive_successes' = 0
          /\ (rl_pc[w] = "rf_write" /\ rl_pc'[w] = "idle") =>
                adaptive_interval' = Min((6 * rl_rd[w]) \div 5, 1000000)]_vars

\* C13 witness: a 429 back-off and a record_failure have both acted on the
\* start interval: 0.2 s * 1.5 * 1.2
C13_Witness ==
    /\ \A w \in Threads : rl_pc[w] = "idle"
    /\ adaptive_interval = (6 * ((3 * MinInterval) \div 2)) \div 5

\* ------------------------------------------------------------------------
\* create_daily_log: today's log, then the next business day's
\* ------------------------------------------------------------------------
TargetStates == {"PENDING", "SKIPPED_WEEKEND", "SKIPPED_EXISTS", "CREATED", "FAILED"}

\* the page of the collection that is the log of a date
LogPage(date, made, filled) ==
    [title |-> get_korean_date_info(date).formatted_title,
     date |-> get_korean_date_info(date).iso_date,
     made |-> made, filled |-> filled]

\* the dates in ds, ascending
RECURSIVE Ascending(_)
Ascending(ds) ==
    IF ds = {} THEN << >>
    ELSE LET d == CHOOSE x \in ds : \A y \in ds : x <= y
         IN <<d>> \o Ascending(ds \ {d})

\* a run starts on any day; the collection may hold the log of today and of
\* the next business day already; the template has blocks or none
InitDL ==
    /\ ArchIdle
    /\ RLInit
    /\ DQIdle
    /\ CBIdle
    /\ MNIdle
    /\ KDIdle
    /\ dl_today \in 0..(NumDays - 1)
    /\ dl_tpl \in BOOLEAN
    /\ \E old \in SUBSET {dl_today, get_next_business_day(dl_today)} :
         dl_db = [j \in 1..Cardinality(old) |-> LogPage(Ascending(old)[j], FALSE, "all")]
    /\ dl_pc = "start"
    /\ dl_k = 0
    /\ dl_date = 0
    /\ dl_new = 0
    /\ dl_state = <<"PENDING", "PENDING">>
    /\ dl_found = <<"none", "none">>
    /\ dl_visits = <<0, 0>>
    /\ dl_faults = 0

\* answers of a remote call of the run
DLOutcomes == {"ok"} \cup (IF dl_faults < MaxFailures THEN {"error"} ELSE {})

DLNoted(o) == dl_faults' = IF o = "ok" THEN dl_faults ELSE dl_faults + 1

\* where create_daily_log goes on once create_work_log returned for target k
AfterTarget(k) == IF k = 1 THEN "next" ELSE "returned"

\* target k ends in state st and create_work_log returns
Ends(k, st) ==
    /\ dl_state' = [dl_state EXCEPT ![k] = st]
    /\ dl_pc' = AfterTarget(k)

\* an exception leaves create_work_log and create_daily_log re-raises it
Raises(k) ==
    /\ dl_state' = [dl_state EXCEPT ![k] = "FAILED"]
    /\ dl_pc' = "raised"

\* a create_work_log without the weekend test
create_work_log_any_day(k, date) ==
    /\ dl_k' = k
    /\ dl_date' = date
    /\ dl_visits' = [dl_visits EXCEPT ![k] = @ + 1]
    /\ dl_pc' = "check"
    /\ UNCHANGED <<dl_state, dl_today, dl_tpl, dl_db, dl_new, dl_found, dl_faults, notDL>>

\* create_work_log(date) up to its first remote call: the weekend test
create_work_log(k, date) ==
    /\ dl_k' = k
    /\ dl_date' = date
    /\ dl_visits' = [dl_visits EXCEPT ![k] = @ + 1]
    /\ IF get_korean_date_info(date).is_weekend
       THEN Ends(k, "SKIPPED_WEEKEND")
       ELSE dl_pc' = "check" /\ UNCHANGED dl_state
    /\ UNCHANGED <<dl_today, dl_tpl, dl_db, dl_new, dl_found, dl_faults, notDL>>

\* create_daily_log step 1: self.create_work_log(today)
create_daily_log_today ==
    /\ dl_pc = "start"
    /\ create_work_log(1, dl_today)

\* create_daily_log step 2: self.create_work_log(get_next_business_day(today))
create_daily_log_next ==
    /\ dl_pc = "next"
    /\ create_work_log(2, get_next_business_day(dl_today))

\* check_existing_log: the title lookup; a failed lookup counts as not found
check_existing_log ==
    /\ dl_pc = "check"
    /\ \E o \in DLOutcomes :
         LET title == get_korean_date_info(dl_date).formatted_title
             results == {j \in 1..Len(dl_db) : dl_db[j].title = title}
         IN /\ DLNoted(o)
            /\ dl_found' = [dl_found EXCEPT ![dl_k] =
                              IF o # "ok" THEN "error"
                              ELSE IF results # {} THEN "found" ELSE "notfound"]
            /\ IF o = "ok" /\ results # {}
               THEN Ends(dl_k, "SKIPPED_EXISTS")
               ELSE dl_pc' = "create" /\ UNCHANGED dl_state
    /\ UNCHANGED <<dl_today, dl_tpl, dl_db, dl_k, dl_date, dl_new, dl_visits, notDL>>

\* duplicate_page step 1: create_page_in_database(date_info)
create_page_in_database ==
    /\ dl_pc = "create"
    /\ \E o \in DLOutcomes :
         /\ DLNoted(o)
         /\ IF o = "ok"
            THEN /\ dl_db' = Append(dl_db,
                                    [title |-> get_korean_date_info(dl_date).formatted_title,
                                     date |-> get_korean_date_info(dl_date).iso_date,
                                     made |-> TRUE, filled |-> "none"])
                 /\ dl_new' = Len(dl_db) + 1
                 /\ dl_pc' = "blocks"
                 /\ UNCHANGED dl_state
            ELSE /\ Raises(dl_k)
                 /\ UNCHANGED <<dl_db, dl_new>>
    /\ UNCHANGED <<dl_today, dl_tpl, dl_k, dl_date, dl_found, dl_visits, notDL>>

\* duplicate_page step 2: template_blocks = get_page_blocks(template_page_id),
\* which re-raises a failed request; without blocks the page is done
duplicate_page_get_blocks ==
    /\ dl_pc = "blocks"
    /\ \E o \in DLOutcomes :
         /\ DLNoted(o)
         /\ IF o # "ok" THEN Raises(dl_k) /\ UNCHANGED dl_new
            ELSE IF dl_tpl THEN dl_pc' = "copy" /\ UNCHANGED <<dl_state, dl_new>>
            ELSE Ends(dl_k, "CREATED") /\ dl_new' = 0
    /\ UNCHANGED <<dl_today, dl_tpl, dl_db, dl_k, dl_date, dl_found, dl_visits, notDL>>

\* duplicate_page: copy_blocks_to_page(new_page_id, template_blocks), which
\* logs a failed block and goes on; create_work_log returns after it
duplicate_page_copy ==
    /\ dl_pc = "copy"
    /\ \E o \in DLOutcomes :
         /\ DLNoted(o)
         /\ dl_db' = [dl_db EXCEPT ![dl_new].filled = IF o = "ok" THEN "all" ELSE "part"]
    /\ Ends(dl_k, "CREATED")
    /\ dl_new' = 0
    /\ UNCHANGED <<dl_today, dl_tpl, dl_k, dl_date, dl_found, dl_visits, notDL>>

NextDL ==
    \/ create_daily_log_today
    \/ create_daily_log_next
    \/ check_existing_log
    \/ create_page_in_database
    \/ duplicate_page_get_blocks
    \/ duplicate_page_copy

SpecDL == InitDL /\ [][NextDL]_vars

\* the two target dates of the run
TargetDate(k) == IF k = 1 THEN dl_today ELSE get_next_business_day(dl_today)

RunOver == dl_pc \in {"returned", "raised"}

\* C14 (as claimed): when the run is over both target dates have left PENDING
\* for a terminal state, and no target was handed to create_work_log twice.
C14_StateMachine ==
    /\ dl_state \in [1..2 -> TargetStates]
    /\ \A k \in 1..2 : dl_visits[k] <= 1
    /\ RunOver => \A k \in 1..2 : dl_state[k] # "PENDING"

\* C15: every page the run created is the log of a target date that is not a
\* Saturday or Sunday and whose existence lookup found no page (or failed):
\* its title is that date's canonical title, its date attribute that date's
\* ISO date.
C15_CreatedOnlyWhenDue ==
    \A j \in 1..Len(dl_db) :
        dl_db[j].made =>
          \E k \in 1..2 :
             LET d == TargetDate(k) IN
             /\ d % 7 \notin {5, 6}
             /\ dl_visits[k] = 1
             /\ dl_found[k] \in {"notfound", "error"}
             /\ dl_db[j].title = [year |-> Civil(d)[1], month |-> Civil(d)[2],
                                  day |-> Civil(d)[3], weekday |-> WeekdayNames[(d % 7) + 1]]
             /\ dl_db[j].date = Civil(d)

\* C15 witness: a run on a Saturday or Sunday that skipped today, and one on
\* a weekday whose log existed, created the log of the next business day
C15_Witness ==
    /\ dl_pc = "returned"
    /\ dl_state[1] \in {"SKIPPED_WEEKEND", "SKIPPED_EXISTS"}
    /\ dl_state[2] = "CREATED"
    /\ \E j \in 1..Len(dl_db) : dl_db[j].made

\* C16: the next business day of a Monday..Thursday is the next calendar day,
\* of a Friday, Saturday or Sunday the following Monday; it is a weekday, one
\* to three days after the day it was computed from.
C16_NextBusinessDay ==
    dl_k = 2 =>
      LET wd == dl_today % 7 IN
      /\ dl_date = IF wd <= 3 THEN dl_today + 1 ELSE dl_today + (7 - wd)
      /\ dl_date % 7 <= 4
      /\ dl_date - dl_today \in 1..3

\* C16 witness: the run of a Friday has its second target, the Monday after
C16_Witness ==
    /\ dl_k = 2
    /\ dl_today % 7 = 4
    /\ dl_date = dl_today + 3

\* ------------------------------------------------------------------------
\* get_pages_before_last_friday: the archive candidates
\* ------------------------------------------------------------------------
\* A title is what the title pattern can tell of it: the date and weekday it
\* starts with, if any, and the text after them.
NoTitle == [date |-> << >>, weekday |-> "", rest |-> ""]

TitleKinds == {"log", "log_and_text", "text", "empty"}

TitleOf(day, kind) ==
    LET t == get_korean_date_info(day).formatted_title IN
    CASE kind = "log" -> [date |-> <<t.year, t.month, t.day>>, weekday |-> t.weekday,
                          rest |-> ""]
      [] kind = "log_and_text" -> [date |-> <<t.year, t.month, t.day>>,
                                   weekday |-> t.weekday, rest |-> "memo"]
      [] kind = "text" -> [date |-> << >>, weekday |-> "", rest |-> "memo"]
      [] kind = "empty" -> NoTitle

\* re.match(r'\d{4}년 \d{1,2}월 \d{1,2}일 \([월화수목금토일]\)', title): the
\* title starts with a date of that form; what follows is not looked at
TitleMatches(title) ==
    /\ title.date # << >>
    /\ title.date[1] \in 1000..9999
    /\ title.date[2] \in 0..99
    /\ title.date[3] \in 0..99
    /\ \E j \in 1..7 : title.weekday = WeekdayNames[j]

\* ISO dates compare as strings: year, then month, then day
IsoBefore(a, b) ==
    \/ a[1] < b[1]
    \/ a[1] = b[1] /\ a[2] < b[2]
    \/ a[1] = b[1] /\ a[2] = b[2] /\ a[3] < b[3]

\* the pages dated Wednesday 2025-11-05 .. Friday 2025-11-07
DQDates == {9, 10, 11}

\* the run days: Saturday 2025-11-08 onwards
DQToday == 12..(12 + NumDays - 1)

InitDQ ==
    /\ ArchIdle
    /\ RLInit
    /\ DLIdle
    /\ CBIdle
    /\ MNIdle
    /\ KDIdle
    /\ dq_today \in DQToday
    /\ \E kind \in [DQDates -> TitleKinds \cup {"absent"}] :
         LET ds == Ascending({d \in DQDates : kind[d] # "absent"}) IN
         dq_db = [j \in 1..Len(ds) |->
                    [id |-> ds[j], title |-> TitleOf(ds[j], kind[ds[j]]), date |-> Civil(ds[j])]]
    /\ dq_pc = "start"
    /\ dq_cutoff = << >>
    /\ dq_cursor = 0
    /\ dq_all = << >>
    /\ dq_faults = 0

\* last_friday as get_pages_before_last_friday computes it
last_friday(today) ==
    LET days_since_friday == (Weekday(today) - 4) % 7 IN
    IF days_since_friday = 0 THEN today - 7 ELSE today - days_since_friday

\* cutoff_date = last_friday - timedelta(days=1)
cutoff_date(today) == last_friday(today) - 1

\* get_pages_before_last_friday up to its first query
get_pages_start ==
    /\ dq_pc = "start"
    /\ dq_cutoff' = Civil(cutoff_date(dq_today))
    /\ dq_pc' = "query"
    /\ UNCHANGED <<dq_today, dq_db, dq_cursor, dq_all, dq_faults, notDQ>>

\* what the collection answers to {"date": {"before": cutoff_iso}}
DateBefore(db, cutoff_iso) == SelectSeq(db, LAMBDA page : IsoBefore(page.date, cutoff_iso))

\* the pages of one answer that pass the title test, as all_pages keeps them
LogPagesOf(results) ==
    LET kept == SelectSeq(results, LAMBDA page :
                            page.title # NoTitle /\ TitleMatches(page.title))
    IN [j \in 1..Len(kept) |->
          [id |-> kept[j].id, title |-> kept[j].title, date |-> kept[j].date]]

\* one POST databases/{id}/query of the loop; a failed one ends the loop
\* with what was collected so far
get_pages_query ==
    /\ dq_pc = "query"
    /\ \E o \in {"ok"} \cup (IF dq_faults < MaxFailures THEN {"error"} ELSE {}) :
         IF o = "ok"
         THEN LET matching == DateBefore(dq_db, dq_cutoff)
                  from == dq_cursor + 1
                  to == Min(dq_cursor + PageSize, Len(matching))
                  has_more == to < Len(matching)
              IN /\ dq_all' = dq_all \o LogPagesOf(SubSeq(matching, from, to))
                 /\ dq_cursor' = IF has_more THEN to ELSE 0
                 /\ dq_pc' = IF has_more THEN "query" ELSE "done"
                 /\ UNCHANGED dq_faults
         ELSE /\ dq_faults' = dq_faults + 1
              /\ dq_pc' = "done"
              /\ UNCHANGED <<dq_all, dq_cursor>>
    /\ UNCHANGED <<dq_today, dq_db, dq_cutoff, notDQ>>

NextDQ ==
    \/ get_pages_start
    \/ get_pages_query

SpecDQ == InitDQ /\ [][NextDQ]_vars

\* the ids get_pages_before_last_friday returned
Returned == {dq_all[j].id : j \in 1..Len(dq_all)}

\* the discovery is over and no query failed
Discovered == dq_pc = "done" /\ dq_faults = 0

\* the most recent Friday strictly before today
LastFridayBefore(today) ==
    CHOOSE f \in (today - 7)..(today - 1) : f % 7 = 4

\* C17 (as claimed): with the cutoff at Friday 2025-11-07, the log page dated
\* 2025-11-06 is returned and the page dated 2025-11-07 is not; a page whose
\* title does not start with a log date is never returned.
C17_CutoffExample ==
    (Discovered /\ LastFridayBefore(dq_today) = 11) =>
      \A j \in 1..Len(dq_db) :
         LET page == dq_db[j] IN
         /\ (page.date = <<2025, 11, 6>> /\ page.title.date = page.date) =>
               page.id \in Returned
         /\ page.date = <<2025, 11, 7>> => page.id \notin Returned
         /\ page.title.date = << >> => page.id \notin Returned

\* C18 (as claimed): on every run day the candidates are the log pages dated
\* before the most recent Friday strictly before today, all of them and no
\* page dated on or after that Friday.
C18_BeforeLastFriday ==
    Discovered =>
      \A j \in 1..Len(dq_db) :
         LET page == dq_db[j] IN
         page.id \in Returned <=>
            /\ page.id < LastFridayBefore(dq_today)
            /\ page.title.date # << >>

\* ------------------------------------------------------------------------
\* clean_block_for_copy on its own: every block, one call
\* ------------------------------------------------------------------------
\* the kinds a block is given: kinds with a payload, the empty kinds, the
\* kinds that are not copied
SampleKinds ==
    {"paragraph", "toggle"} \cup EmptyBlockTypes
        \cup {"child_page", "child_database"} \cup UnsupportedBlocks

\* keys a block can have next to 'type' and its payload
SampleBlockKeys == {"object", "id", "has_children", "parent"}

\* keys a payload can have
SamplePayloadKeys == {"rich_text", "color", "id", "archived"}

InitCB ==
    /\ ArchIdle
    /\ RLInit
    /\ DLIdle
    /\ DQIdle
    /\ MNIdle
    /\ KDIdle
    /\ \E has_type \in BOOLEAN, kind \in SampleKinds \cup {""}, has_payload \in BOOLEAN,
          block_keys \in SUBSET SampleBlockKeys, payload_keys \in SUBSET SamplePayloadKeys :
         LET keys == block_keys
                       \cup (IF has_type THEN {"type"} ELSE {})
                       \cup (IF has_type /\ kind # "" /\ has_payload THEN {kind} ELSE {})
         IN cb_block = [k \in keys |->
                          IF k = "type" THEN kind
                          ELSE IF k \in block_keys THEN "value"
                          ELSE [key \in payload_keys |-> "value"]]
    /\ cb_pc = "called"
    /\ cb_out = None

\* the call returns
clean_block_for_copy_return ==
    /\ cb_pc = "called"
    /\ cb_out' = clean_block_for_copy(cb_block)
    /\ cb_pc' = "returned"
    /\ UNCHANGED <<cb_block, notCB>>

\* the record returned is passed in again
clean_block_for_copy_again ==
    /\ cb_pc = "returned"
    /\ cb_out # None
    /\ cb_block' = cb_out
    /\ cb_out' = clean_block_for_copy(cb_out)
    /\ cb_pc' = "returned_again"
    /\ UNCHANGED notCB

NextCB ==
    \/ clean_block_for_copy_return
    \/ clean_block_for_copy_again

SpecCB == InitCB /\ [][NextCB]_vars

\* the kind of the block passed in, "" when it has none
KindGiven == IF "type" \in DOMAIN cb_block THEN cb_block["type"] ELSE ""

\* C19: a block with no kind, or of kind child_page, child_database,
\* link_preview or unsupported, is cleaned to None whatever else it holds; a
\* block of any other kind is cleaned to a record.
C19_NoneForUncopied ==
    cb_pc = "returned" =>
      IF KindGiven \in {"", "child_page", "child_database", "link_preview", "unsupported"}
      THEN cb_out = None
      ELSE cb_out # None /\ "type" \in DOMAIN cb_out

\* a child_page with a payload and other fields has been cleaned to None
C19_Witness ==
    /\ cb_pc = "returned"
    /\ KindGiven = "child_page"
    /\ {"id", "child_page"} \subseteq DOMAIN cb_block
    /\ cb_out = None

\* C20: the record returned has the kind tag and the kind payload and no other
\* key, so none of the read-only fields, and its payload has no read-only key.
C20_NoReadonlyField ==
    (cb_pc = "returned" /\ cb_out # None) =>
      /\ DOMAIN cb_out = {"type", KindGiven}
      /\ DOMAIN cb_out \cap ReadonlyFields = {}
      /\ cb_out["type"] = KindGiven
      /\ DOMAIN cb_out[KindGiven] \cap ReadonlyFields = {}

\* a paragraph with read-only keys both next to and inside its payload has
\* been cleaned to a record
C20_Witness ==
    /\ cb_pc = "returned"
    /\ KindGiven = "paragraph"
    /\ {"id", "has_children", "parent", "paragraph"} \subseteq DOMAIN cb_block
    /\ {"id", "archived", "rich_text"} \subseteq DOMAIN cb_block["paragraph"]
    /\ cb_out # None

\* C21: a divider, breadcrumb or table_of_contents is cleaned to the record
\* of its kind with an empty payload, whatever its payload held, and cleaning
\* that record again returns the same record.
C21_EmptyKinds ==
    /\ (cb_pc = "returned" /\ KindGiven \in {"divider", "breadcrumb", "table_of_contents"}) =>
          /\ DOMAIN cb_out = {"type", KindGiven}
          /\ cb_out["type"] = KindGiven
          /\ DOMAIN cb_out[KindGiven] = {}
    /\ (cb_pc = "returned_again" /\ KindGiven \in {"divider", "breadcrumb", "table_of_contents"}) =>
          cb_out = cb_block

\* the record cleaned from a divider has been cleaned again
C21_Witness ==
    /\ cb_pc = "returned_again"
    /\ KindGiven = "divider"
    /\ cb_out = [k \in {"type", "divider"} |-> IF k = "type" THEN "divider" ELSE EmptyDict]

\* the calls task t has seen fail so far
FailuresOf(t) == nerr[t] + n429[t]

\* C22 (as claimed): while a nested child page is being replicated, a failed
\* call other than the creation of its destination page does not end its
\* replication: its destination page exists already, or the child page is
\* still being replicated after the step.
C22_OnlyCreateAborts ==
    [][\A t \in Tasks : \A j \in 1..Len(stack[t]) :
          LET f == stack[t][j] IN
          ( /\ f.fn = "copy_child_page_recursive"
            /\ FailuresOf(t)' = FailuresOf(t) + 1
            /\ ~(j = Len(stack[t]) /\ f.pc = "create") )
          => \/ f.new # NoId
             \/ /\ Len(stack'[t]) >= j
                /\ stack'[t][j].fn = "copy_child_page_recursive"
                /\ stack'[t][j].src = f.src]_vars

\* ------------------------------------------------------------------------
\* main of the three scripts: configuration check, then the run
\* ------------------------------------------------------------------------
Scripts == {"archive_last_week", "create_daily_log", "archive_single_page"}

\* os.getenv of a variable that is not set gives None
Unset == "<unset>"

EnvNames == {"NOTION_API_KEY", "DATA_SOURCE_ID", "TEMPLATE_PAGE_ID", "PAGE_ID", "PAGE_TITLE"}

EnvValues == {Unset, "", "value"}

\* truth value of what os.getenv returned: None and '' are falsy
Truthy(value) == value \notin {Unset, ""}

\* a check that asks every script for the same two variables
RequiredWithoutTemplate(script) == {"NOTION_API_KEY", "DATA_SOURCE_ID"}

\* the variables main passes to all([...])
RequiredConfig(script) ==
    IF script = "create_daily_log"
    THEN {"NOTION_API_KEY", "TEMPLATE_PAGE_ID", "DATA_SOURCE_ID"}
    ELSE {"NOTION_API_KEY", "DATA_SOURCE_ID"}

InitMN ==
    /\ ArchIdle
    /\ RLInit
    /\ DLIdle
    /\ DQIdle
    /\ CBIdle
    /\ KDIdle
    /\ mn_script \in Scripts
    /\ mn_env \in [EnvNames -> EnvValues]
    /\ mn_pc = "start"
    /\ mn_exit = 0 - 1
    /\ mn_made = FALSE
    /\ mn_calls = 0

\* sys.exit(code)
Exit(code) ==
    /\ mn_pc' = "exited"
    /\ mn_exit' = code

\* main up to the construction of the archiver/creator: the required
\* variables, for archive_single_page then the page to archive (no command
\* line argument given)
main_check ==
    /\ mn_pc = "start"
    /\ IF \E name \in RequiredConfig(mn_script) : ~Truthy(mn_env[name])
       THEN Exit(1) /\ UNCHANGED mn_made
       ELSE IF /\ mn_script = "archive_single_page"
               /\ ~Truthy(mn_env["PAGE_ID"])
               /\ ~Truthy(mn_env["PAGE_TITLE"])
       THEN Exit(1) /\ UNCHANGED mn_made
       ELSE /\ mn_made' = TRUE
            /\ mn_pc' = "run"
            /\ UNCHANGED mn_exit
    /\ UNCHANGED <<mn_script, mn_env, mn_calls, notMN>>

\* the run issues a remote call
main_remote_call ==
    /\ mn_pc = "run"
    /\ mn_calls < MaxRemoteCalls
    /\ mn_calls' = mn_calls + 1
    /\ UNCHANGED <<mn_script, mn_env, mn_pc, mn_exit, mn_made, notMN>>

\* the run is over: main returns, or an exception or sys.exit(1) ends it
main_end ==
    /\ mn_pc = "run"
    /\ mn_calls > 0
    /\ \E code \in {0, 1} : Exit(code)
    /\ UNCHANGED <<mn_script, mn_env, mn_made, mn_calls, notMN>>

NextMN ==
    \/ main_check
    \/ main_remote_call
    \/ main_end

SpecMN == InitMN /\ [][NextMN]_vars

\* C23: when the API key or the collection id is missing, or for the
\* daily-log script the template id, main has exited with a non-zero status,
\* no archiver or creator was made and no remote call was issued.
C23_MissingConfigExits ==
    ( /\ mn_pc \notin {"idle", "start"}
      /\ \/ mn_env["NOTION_API_KEY"] \in {Unset, ""}
         \/ mn_env["DATA_SOURCE_ID"] \in {Unset, ""}
         \/ mn_script = "create_daily_log" /\ mn_env["TEMPLATE_PAGE_ID"] \in {Unset, ""} )
    => /\ mn_pc = "exited"
       /\ mn_exit > 0
       /\ ~mn_made
       /\ mn_calls = 0

\* the daily-log script has exited for its template id alone
C23_Witness ==
    /\ mn_script = "create_daily_log"
    /\ mn_env["NOTION_API_KEY"] = "value"
    /\ mn_env["DATA_SOURCE_ID"] = "value"
    /\ mn_env["TEMPLATE_PAGE_ID"] = Unset
    /\ mn_pc = "exited"
    /\ mn_exit = 1
    /\ mn_calls = 0

\* ------------------------------------------------------------------------
\* get_korean_date_info and get_korean_date_title on their own
\* ------------------------------------------------------------------------
\* five weeks of dates from Monday 2025-10-27
KDDates == 0..(5 * NumDays - 1)

InitKD ==
    /\ ArchIdle
    /\ RLInit
    /\ DLIdle
    /\ DQIdle
    /\ CBIdle
    /\ MNIdle
    /\ kd_date \in KDDates
    /\ kd_info = << >>
    /\ kd_title = << >>

get_korean_date_info_call ==
    /\ kd_info = << >>
    /\ kd_info' = get_korean_date_info(kd_date)
    /\ UNCHANGED <<kd_date, kd_title, notKD>>

get_korean_date_title_call ==
    /\ kd_title = << >>
    /\ kd_title' = get_korean_date_title(kd_date)
    /\ UNCHANGED <<kd_date, kd_info, notKD>>

NextKD ==
    \/ get_korean_date_info_call
    \/ get_korean_date_title_call

SpecKD == InitKD /\ [][NextKD]_vars

\* the weekday label of a calendar date by Zeller's congruence, which counts
\* from Saturday
LabelOfDate(y, m, d) ==
    LET mm == IF m < 3 THEN m + 12 ELSE m
        yy == IF m < 3 THEN y - 1 ELSE y
        K == yy % 100
        J == yy \div 100
        h == (d + ((13 * (mm + 1)) \div 5) + K + (K \div 4) + (J \div 4) + 5 * J) % 7
    IN <<"Sat", "Sun", "Mon", "Tue", "Wed", "Thu", "Fri">>[h + 1]

\* the calendar date kd_date days after 2025-10-27, counted month by month
DateGiven ==
    LET n == 27 + kd_date IN
    IF n <= 31 THEN <<2025, 10, n>>
    ELSE IF n <= 61 THEN <<2025, 11, n - 31>>
    ELSE <<2025, 12, n - 61>>

\* C24: the title carries the year, month and day of the date and the label
\* of the date's weekday, Monday to Sunday; is_weekend is true exactly on
\* Saturday and Sunday; a Wednesday gives the Wednesday label and
\* is_weekend false. get_korean_date_title gives the same title.
C24_TitleAndWeekend ==
    LET label == LabelOfDate(DateGiven[1], DateGiven[2], DateGiven[3])
        title == [year |-> DateGiven[1], month |-> DateGiven[2], day |-> DateGiven[3],
                  weekday |-> label]
    IN /\ kd_info # << >> =>
            /\ kd_info.formatted_title = title
            /\ kd_info.is_weekend <=> label \in {"Sat", "Sun"}
            /\ label = "Wed" =>
                  kd_info.formatted_title.weekday = "Wed" /\ ~kd_info.is_weekend
       /\ kd_title # << >> => kd_title = title

\* both helpers were called on Wednesday 2025-11-05
C24_Witness ==
    /\ kd_date = 9
    /\ kd_info # << >>
    /\ kd_info.formatted_title.weekday = "Wed"
    /\ kd_title # << >>

\* the child pages of the source at every depth below node p
RECURSIVE ChildPagesBelow(_, _)
ChildPagesBelow(w, p) ==
    LET below == {Listing(w, p)[j] : j \in 1..Len(Listing(w, p))} IN
    {b \in below : KindOf(w, b) = "child_page"}
        \cup UNION {ChildPagesBelow(w, b) : b \in below}

\* the destination pages task t created as copies of source page p
CounterpartsOf(t, p) ==
    {j \in 1..Len(node[t]) : node[t][j].kind = "page" /\ node[t][j].src = p}

\* C25 (as claimed): when a candidate has been archived and no call failed,
\* every child page of the source, at every depth, has exactly one
\* counterpart in the destination tree.
C25_ExactlyOnce ==
    \A t \in Tasks :
       (Done(t) /\ result[t] = "true" /\ FaultFree(t)) =>
          \A p \in ChildPagesBelow(world, <<pages_sorted[t]>>) :
             Cardinality(CounterpartsOf(t, p)) = 1

\* source node p is node b or lies below it
Within(b, p) == Len(b) <= Len(p) /\ SubSeq(p, 1, Len(b)) = b

\* the block the copy_blocks_to_page call in frame k of st is at: the block
\* of its loop, or the one whose child page or children a callee is copying
SiblingAt(st, k) == IF k = Len(st) THEN st[k].blocks[st[k].i] ELSE st[k + 1].src

\* the place of a block among its siblings in the source list
PlaceOf(b) == b[Len(b)]

\* C26: while a copy_blocks_to_page call is at sibling b_i, every node written
\* is a copy of b_i or of something below it, and the call never goes back to
\* an earlier sibling of the source list: all writes for b_i are over before
\* the first write for b_(i+1).
C26_DepthFirst ==
    [][\A t \in Tasks : \A k \in 1..Len(stack[t]) :
          stack[t][k].fn = "copy_blocks_to_page" =>
            /\ Len(node'[t]) > Len(node[t]) =>
                  Within(SiblingAt(stack[t], k), node'[t][Len(node'[t])].src)
            /\ ( /\ Len(stack'[t]) >= k
                 /\ stack'[t][k].fn = "copy_blocks_to_page"
                 /\ stack'[t][k].tgt = stack[t][k].tgt )
               => PlaceOf(SiblingAt(stack'[t], k)) >= PlaceOf(SiblingAt(stack[t], k))]_vars

\* a toggle, the paragraph below it and the paragraph after it were written,
\* in this order
C26_Witness ==
    \E t \in Tasks :
        /\ Len(node[t]) >= 4
        /\ KindOf(world, node[t][2].src) = "toggle"
        /\ Within(node[t][2].src, node[t][3].src)
        /\ node[t][3].src # node[t][2].src
        /\ ~Within(node[t][2].src, node[t][4].src)

\* C27: every node written under a destination node is the copy of a child of
\* the source node that destination node was copied from. So the children of
\* a block are found under the block created for it and nowhere else, and
\* nothing below a block is written unless the block itself was.
C27_ChildrenUnderOwnBlock ==
    \A d \in DOMAIN kids :
       d # ArchivePageId =>
          \A j \in 1..Len(kids[d]) :
             /\ Len(NodeOf(kids[d][j]).src) > 1
             /\ Parent(NodeOf(kids[d][j]).src) = NodeOf(d).src

\* the block created for a toggle has the copy of the toggle's child under it
C27_Witness ==
    \E d \in DOMAIN kids :
        /\ d # ArchivePageId
        /\ NodeOf(d).kind = "toggle"
        /\ Len(kids[d]) = 1
        /\ KindOf(world, NodeOf(kids[d][1]).src) = "paragraph"

\* the next step of a task with this stack is an outbound remote call
RemoteCallNext(st) ==
    /\ st # << >>
    /\ LET f == TopOf(st) IN
       \/ f.fn = "move_page" /\ f.pc \in {"create", "delete"}
       \/ f.fn = "get_page_blocks" /\ f.pc = "fetch"
       \/ f.fn = "get_child_pages" /\ f.pc = "fetch"
       \/ f.fn = "copy_blocks_to_page" /\ f.pc = "append"
       \/ f.fn = "copy_child_page_recursive" /\ f.pc \in {"getpage", "create"}

\* C28 (as claimed): a worker that has just issued a remote call passes
\* wait_if_needed before it issues its next one.
C28_WaitBetweenCalls ==
    [][\A t \in Tasks :
          (RemoteCallNext(stack[t]) /\ stack'[t] # stack[t])
             => ~RemoteCallNext(stack'[t])]_vars

\* the candidate tasks in progress
InProgress == {t \in Tasks : status[t] = "running"}

\* C29: at most max_workers candidate tasks are in progress, and at most one
\* when parallel mode is off or there is a single candidate; a task has calls
\* in progress only while it runs, on the one call stack it has.
C29_BoundedWorkers ==
    /\ Cardinality(InProgress) <= max_workers
    /\ (~use_parallel \/ world.n <= 1) => Cardinality(InProgress) <= 1
    /\ \A t \in Tasks : stack[t] # << >> => t \in InProgress

\* the pool of one worker runs the first of two candidates while the second
\* waits
C29_Witness ==
    /\ use_parallel
    /\ max_workers = 1
    /\ world.n = 2
    /\ status = <<"running", "queued">>
    /\ RemoteCallNext(stack[1])

\* an id of the source: a candidate page or a node below one
IsSourceId(id) == id[1] # 0

\* C30: nothing is created or appended under a node of the source, and the
\* only source nodes archived are top-level candidate pages; the nested child
\* pages of the source are not.
C30_SourceFrame ==
    /\ \A d \in DOMAIN kids : ~IsSourceId(d)
    /\ \A t \in Tasks : \A j \in 1..Len(node[t]) : IsSourceId(node[t][j].src)
    /\ \A p \in archived : Len(p) = 1 /\ \E t \in Tasks : p = <<pages_sorted[t]>>

\* a candidate with a child page was replicated and archived
C30_Witness ==
    \E t \in Tasks :
        /\ Started
        /\ <<pages_sorted[t]>> \in archived
        /\ \E j \in 1..Len(node[t]) :
              node[t][j].kind = "page" /\ Len(node[t][j].src) > 1

\* C31: get_page_blocks has collected, of the listing of its node, the blocks
\* of the pages read so far, in order and each once; the list a caller holds
\* from it is that whole listing or, after a failed page, the empty list,
\* never a part of it.
C31_WholeListOrNone ==
    \A t \in Tasks : \A k \in 1..Len(stack[t]) :
       LET f == stack[t][k] IN
       /\ f.fn = "get_page_blocks" =>
             f.acc = SubSeq(Listing(world, f.src), 1, f.cursor)
       /\ f.fn = "move_page" =>
             /\ f.rv \in {<< >>, Listing(world, f.src)}
             /\ f.blocks \in {<< >>, Listing(world, f.src)}
       /\ f.fn = "copy_child_page_recursive" =>
             f.blocks \in {<< >>, Listing(world, f.src)}
       /\ f.fn = "copy_blocks_to_page" =>
             f.blocks = Listing(world, Parent(f.blocks[1]))

\* move_page holds a list of two blocks that get_page_blocks read page by page
C31_Witness ==
    \E t \in Tasks :
        /\ stack[t] # << >>
        /\ stack[t][1].fn = "move_page"
        /\ stack[t][1].pc = "create"
        /\ Len(stack[t]) = 1
        /\ Len(stack[t][1].rv) = 2
        /\ PageSize < 2

\* C32: the step that archives the source of a candidate is taken by
\* move_page at its delete_page, with the destination page created and no
\* copy_blocks_to_page call left open; once the source is archived no node is
\* written for that candidate any more.
C32_CopyBeforeArchive ==
    [][Started =>
         \A t \in Tasks :
            LET c == <<pages_sorted[t]>> IN
            /\ (c \notin archived /\ c \in archived') =>
                  /\ HasDest(t)
                  /\ Len(stack[t]) = 1
                  /\ stack[t][1].fn = "move_page"
                  /\ stack[t][1].pc = "delete"
            /\ c \in archived => node'[t] = node[t]]_vars

\* the source of a candidate was archived after two blocks were copied
C32_Witness ==
    \E t \in Tasks :
        /\ Started
        /\ <<pages_sorted[t]>> \in archived
        /\ Len(kids[DestPage(t)]) = 2
        /\ status[t] = "finished"

\* C33 (as claimed): when move_page has reported failure for a candidate, by
\* returning False or by raising, no destination page of that candidate is
\* found under the archive container.
C33_FailureLeavesNoCopy ==
    \A t \in Tasks :
       (Done(t) /\ result[t] \in {"false", "exc"}) =>
          /\ ~HasDest(t)
          /\ \A j \in 1..Len(kids[ArchivePageId]) :
                NodeOf(kids[ArchivePageId][j]).src # <<pages_sorted[t]>>

\* the pages of the collection that carry the title of a date
TitledAs(date) ==
    {j \in 1..Len(dl_db) : dl_db[j].title = get_korean_date_info(date).formatted_title}

\* C34 (as claimed): the collection never holds two pages with the title of
\* one target date, whatever the existence lookups of the run answered. The
\* pages the run starts with are the ones earlier runs of the day left.
C34_OnePagePerTitle ==
    \A k \in 1..2 : Cardinality(TitledAs(TargetDate(k))) <= 1

\* C35 (as claimed): when create_work_log failed for a target date, the run
\* left no page of its own with the title of that date in the collection.
C35_FailedLeavesNoPage ==
    \A k \in 1..2 :
        dl_state[k] = "FAILED" =>
            \A j \in TitledAs(TargetDate(k)) : ~dl_db[j].made

\* the candidates the coordinating thread has taken the result of
Counted == {t \in Tasks : status[t] = "collected"}

\* C36: the counters hold exactly the results the coordinating thread has
\* taken, each candidate in one of them and once; no step of a task that is
\* still queued, running or finished-but-not-taken has touched them; when the
\* summary is logged they add up to the number of candidates.
C36_CounterConsistency ==
    /\ success_count = Cardinality({t \in Counted : result[t] = "true"})
    /\ fail_count = Cardinality({t \in Counted : result[t] # "true"})
    /\ phase = "done" => /\ Counted = Tasks
                         /\ success_count + fail_count = Len(pages_sorted)

\* C36 witness: a parallel run of two workers is over with one candidate
\* archived and the candidate submitted first failed
C36_Witness ==
    /\ phase = "done"
    /\ ParallelPath
    /\ max_workers = 2
    /\ result[1] = "false"
    /\ success_count = 1
    /\ fail_count = 1

\* a thread is between the increment and the reset of record_success, which
\* the lock makes one step for every other caller of the RateLimiter
InRecordSuccess == \E w \in Threads : rl_pc[w] = "rs_write"

\* C37: whatever the threads called and however their steps interleaved,
\* adaptive_interval lies between min_interval and 1.0 s, and outside the
\* critical section of record_success the streak lies between 0 and 10.
C37_RateLimiterBounds ==
    /\ min_interval <= adaptive_interval
    /\ adaptive_interval <= MaxInterval
    /\ consecutive_successes >= 0
    /\ ~InRecordSuccess => consecutive_successes <= 10

\* C37 witness: the calls of the threads are over and the growth of the
\* interval met the cap of 1.0 s
C37_Witness ==
    /\ rl_calls = MaxCalls
    /\ \A w \in Threads : rl_pc[w] = "idle"
    /\ adaptive_interval = MaxInterval
    /\ min_interval < MaxInterval

\* ------------------------------------------------------------------------
\* archive_last_week called twice on the same candidates, once with
\* use_parallel and once without, every remote call of a candidate answered
\* in the second run as it was in the first
\* ------------------------------------------------------------------------
\* a per-task value, told by candidate
ByCandidate(f) ==
    [c \in 1..world.n |-> f[CHOOSE t \in Tasks : pages_sorted[t] = c]]

\* the destination pages task t created: which node of the task, copy of
\* which source page
DestPagesOf(t) ==
    {<<j, node[t][j].src>> : j \in {i \in 1..Len(node[t]) : node[t][i].kind = "page"}}

\* what a run ended with
Ending ==
    [answers |-> ByCandidate(answers),
     archived |-> archived,
     pages |-> ByCandidate([t \in Tasks |-> DestPagesOf(t)]),
     success_count |-> success_count,
     fail_count |-> fail_count,
     use_parallel |-> use_parallel]

\* the first run is over: the store is put back to what it was and
\* archive_last_week is called with the other use_parallel and any max_workers
Rerun ==
    /\ phase = "done"
    /\ prior = FirstRun
    /\ prior' = Ending
    /\ use_parallel' = ~use_parallel
    /\ max_workers' \in 1..MaxWorkers
    /\ phase' = "idle"
    /\ pages_sorted' = << >>
    /\ status' = [t \in Tasks |-> "queued"]
    /\ stack' = [t \in Tasks |-> << >>]
    /\ result' = [t \in Tasks |-> "none"]
    /\ archived' = {}
    /\ node' = [t \in Tasks |-> << >>]
    /\ kids' = (ArchivePageId :> << >>)
    /\ success_count' = 0
    /\ fail_count' = 0
    /\ usedIds' = [t \in Tasks |-> {}]
    /\ attempts' = [t \in Tasks |-> 0]
    /\ faults' = 0
    /\ nerr' = [t \in Tasks |-> 0]
    /\ n429' = [t \in Tasks |-> 0]
    /\ answers' = [t \in Tasks |-> << >>]
    /\ UNCHANGED <<world, notArch>>

NextPS ==
    \/ ArchiveStart
    \/ Summary
    \/ Rerun
    \/ \E t \in Tasks : StartTask(t)
    \/ \E t \in Tasks : Collect(t)
    \/ \E t \in Tasks : move_page_wait1(t)
    \/ \E t \in Tasks : move_page_create(t)
    \/ \E t \in Tasks : move_page_wait2(t)
    \/ \E t \in Tasks : move_page_delete(t)
    \/ \E t \in Tasks : get_page_blocks_fetch(t)
    \/ \E t \in Tasks : get_child_pages_fetch(t)
    \/ \E t \in Tasks : copy_blocks_cp_wait(t)
    \/ \E t \in Tasks : copy_blocks_append(t)
    \/ \E t \in Tasks : copy_blocks_ch_wait(t)
    \/ \E t \in Tasks : copy_blocks_post_wait(t)
    \/ \E t \in Tasks : copy_child_page_getpage(t)
    \/ \E t \in Tasks : copy_child_page_create(t)
    \/ \E t \in Tasks : copy_child_page_wait1(t)
    \/ \E t \in Tasks : copy_child_page_wait2(t)
    \/ \E t \in Tasks : copy_child_page_children(t)

InitPS == InitRun /\ prior = FirstRun

SpecPS == InitPS /\ [][NextPS]_vars

\* both runs are over
BothOver == prior \notin {NoRun, FirstRun} /\ phase = "done"

\* C38: when both runs are over and every candidate got the same answers in
\* both, they ended with the same archived source pages, the same destination
\* pages for every candidate, and the same success and failure counts.
C38_ParallelSequentialEquivalence ==
    (BothOver /\ Ending.answers = prior.answers) =>
        /\ Ending.archived = prior.archived
        /\ Ending.pages = prior.pages
        /\ Ending.success_count = prior.success_count
        /\ Ending.fail_count = prior.fail_count

\* C38 witness: a sequential run and then a run of two workers over two
\* candidates, one candidate archived and one failed in both
C38_Witness ==
    /\ BothOver
    /\ Ending.answers = prior.answers
    /\ ~prior.use_parallel
    /\ ParallelPath
    /\ max_workers = 2
    /\ success_count = 1
    /\ fail_count = 1

\* ------------------------------------------------------------------------
\* The archive run under fair scheduling
\* ------------------------------------------------------------------------
\* The interpreter and the pool run a thread that can take a step, and the
\* remote service answers every call: while some step of the run is possible
\* one is taken.
SpecFair == Init /\ [][Next]_vars /\ WF_vars(Next)

\* the RateLimiter lock is held only by a thread inside one of the `with
\* self.lock` sections, none of which waits for anything but the end of a
\* sleep: a thread leaves the lock free when it returns or raises
LockHeldInside ==
    \A w \in Threads :
        (lock = w) <=> rl_pc[w] \in {"w_body", "w_calc", "w_sleep", "rs_body", "rs_write",
                                     "rf_body", "rf_write"}

====
